---- MODULE Spec2Model ----
(***************************************************************************)
(* Model of redbot/core/config.py: the scoped read-modify-write protocol   *)
(* (_ValueCtxManager), the per-address lock registry (Value.get_lock),     *)
(* the Value/Group read and write paths and the driver they delegate to.   *)
(*                                                                         *)
(* Scheduling is asyncio's: one thread, tasks interleave only at awaits.   *)
(* Every action below is the code a task runs between two suspension       *)
(* points (lock acquisition, Driver.get, Driver.set, an await in the body  *)
(* of the section).                                                        *)
(*                                                                         *)
(* Specifications: Spec and FairSpec (sections), KeySpec (sections under a *)
(* schema with a key that is not a str), PlainSpec (a section with _get,   *)
(* set and clear called from outside it), AccessSpec (_get, set, clear and *)
(* set_raw alone), KeptSpec (an accessor that is kept and called again),   *)
(* StoreSpec (the instance cache of ConfigMeta), ResolveSpec (root Groups  *)
(* and their children), FaultSpec (a section and calls from outside it     *)
(* with a driver that fails), LatestSpec (get_latest_confs), TempbanSpec   *)
(* (the tempban command and the expiration pass of the Mod cog), ModSpec   *)
(* and LoopSpec (the Mod cog's expiration task), TunnelSpec (the Tunnels   *)
(* of redbot/core/utils/tunnel.py).                                        *)
(***************************************************************************)
EXTENDS Integers, Sequences, FiniteSets, TLC

(***************************************************************************)
(* Bounds.                                                                 *)
(***************************************************************************)
NSections == 2          \* tasks, each running one `async with value(...)`
MaxMutations == 2       \* in-place mutations the section bodies perform in all
MaxFaults == 1          \* driver failures, body exceptions and cancellations
MaxCalls == 2           \* calls of _get, set, clear, set_raw outside sections

Sections == 1..NSections

\* the tasks whose call site passes acquire_lock=False; every other call
\* site leaves the default, acquire_lock=True
OptOutCallers == {1}

(***************************************************************************)
(* JSON-like values.  Every value is a record of the same shape so that    *)
(* any two values can be compared: kind says which field is meaningful.    *)
(* A dict is a function from keys to values; a key remembers whether it is *)
(* a str or an int, s is its text.                                         *)
(***************************************************************************)
K(s) == [t |-> "str", s |-> s]
IK(s) == [t |-> "int", s |-> s]

NoneV == [kind |-> "none", n |-> 0, items |-> <<>>, ents |-> <<>>]
IntV(i) == [kind |-> "int", n |-> i, items |-> <<>>, ents |-> <<>>]
ListV(q) == [kind |-> "list", n |-> 0, items |-> q, ents |-> <<>>]
DictV(f) == [kind |-> "dict", n |-> 0, items |-> <<>>, ents |-> f]

IsDict(v) == v.kind = "dict"
IsList(v) == v.kind = "list"

\* d[k] = v on a dict value (adds the key when absent)
DictSet(d, k, v) ==
    DictV([x \in (DOMAIN d.ents) \cup {k} |-> IF x = k THEN v ELSE d.ents[x]])

\* l.append(v) on a list value
ListAppend(l, v) == ListV(Append(l.items, v))

(***************************************************************************)
(* _str_key_dict: recursively cast all keys of a dict to str.  Values that *)
(* are not dicts (lists included) are kept as they are.  When two keys     *)
(* have the same text the comprehension keeps one of them.                 *)
(***************************************************************************)
str(k) == [t |-> "str", s |-> k.s]

RECURSIVE str_key_dict(_)
str_key_dict(value) ==
    LET keys == {str(k) : k \in DOMAIN value.ents}
        src(sk) == CHOOSE k \in DOMAIN value.ents : str(k) = sk
    IN DictV([sk \in keys |->
                IF IsDict(value.ents[src(sk)])
                THEN str_key_dict(value.ents[src(sk)])
                ELSE value.ents[src(sk)]])

(***************************************************************************)
(* Addresses (IdentifierData): owner, category, primary keys and the       *)
(* nested identifiers below them.  Two addresses are equal iff their       *)
(* fields are.  The constructor refuses more primary keys than the         *)
(* category has (exc says so).                                             *)
(***************************************************************************)
IdentifierData_unchecked(cog_name, uuid, category, primary_key, identifiers, primary_key_len, is_custom) ==
    [cog_name |-> cog_name, uuid |-> uuid, category |-> category,
     primary_key |-> primary_key, identifiers |-> identifiers,
     primary_key_len |-> primary_key_len, is_custom |-> is_custom,
     exc |-> "none"]
IdentifierData(cog_name, uuid, category, primary_key, identifiers, primary_key_len, is_custom) ==
    [cog_name |-> cog_name, uuid |-> uuid, category |-> category,
     primary_key |-> primary_key, identifiers |-> identifiers,
     primary_key_len |-> primary_key_len, is_custom |-> is_custom,
     exc |-> IF Len(primary_key) > primary_key_len
             THEN "ContractViolation" ELSE "none"]

\* IdentifierData.get_child: one more nested identifier, the receiver is
\* left as it is
get_child(a, item) == [a EXCEPT !.identifiers = Append(@, item)]

\* ConfigCategory.get_pkey_info: the number of primary keys of a category
\* (custom_groups gives it for a custom category) and whether it is custom
get_pkey_info(category, custom_groups) ==
    IF category \in DOMAIN custom_groups
    THEN [pkey_len |-> custom_groups[category], is_custom |-> TRUE]
    ELSE [pkey_len |-> CASE category = "GLOBAL" -> 0
                         [] category = "MEMBER" -> 2
                         [] OTHER -> 1,
          is_custom |-> FALSE]

\* the addresses of the data: one guild's record of the Mod cog's store,
\* config.guild(g), and two of its fields
Root == IdentifierData("Mod", "4961522000", "GUILD", <<"g">>, <<>>, 1, FALSE)
Tempbans == get_child(Root, "current_tempbans")
DefaultDays == get_child(Root, "default_days")
Addrs == {Root, Tempbans, DefaultDays}

(***************************************************************************)
(* The schema registered for GUILD, Config._defaults[GUILD]: a list, a     *)
(* scalar and a nested mapping of Mod.default_guild_settings.              *)
(***************************************************************************)
GuildDefaults ==
    DictV([k \in {K("current_tempbans"), K("default_days"), K("mention_spam")} |->
             CASE k = K("current_tempbans") -> ListV(<<>>)
               [] k = K("default_days") -> IntV(0)
               [] OTHER -> DictV([x \in {K("strict")} |-> IntV(0)])])

(***************************************************************************)
(* Accessors.  A Value holds an address and one default; a Group holds an  *)
(* address, a defaults subtree (its Value.default is the empty dict) and   *)
(* force_registration.  Where an accessor is asked for and an exception is *)
(* raised instead, Raised(e) stands for the outcome.                       *)
(***************************************************************************)
Value(identifier_data, default_value) ==
    [is_group |-> FALSE, identifier_data |-> identifier_data,
     default |-> default_value, defaults |-> NoneV,
     force_registration |-> FALSE, exc |-> "none"]

Group(identifier_data, defaults, force_registration) ==
    [is_group |-> TRUE, identifier_data |-> identifier_data,
     default |-> DictV(<<>>), defaults |-> defaults,
     force_registration |-> force_registration, exc |-> "none"]

Raised(e) == [Value(Root, NoneV) EXCEPT !.exc = e]

is_group_any(defaults, item) == K(item) \in DOMAIN defaults.ents
is_group(defaults, item) ==
    K(item) \in DOMAIN defaults.ents /\ IsDict(defaults.ents[K(item)])

is_value(defaults, item) ==
    K(item) \in DOMAIN defaults.ents /\ ~IsDict(defaults.ents[K(item)])

\* Group.__getattr__
getattr_unforced(group, item) ==
    LET new_identifiers == get_child(group.identifier_data, item)
    IN IF is_group(group.defaults, item)
       THEN Group(new_identifiers, group.defaults.ents[K(item)], FALSE)
       ELSE IF is_value(group.defaults, item)
       THEN Value(new_identifiers, group.defaults.ents[K(item)])
       ELSE IF group.force_registration
       THEN Raised("AttributeError")
       ELSE Value(new_identifiers, NoneV)
getattr(group, item) ==
    LET new_identifiers == get_child(group.identifier_data, item)
    IN IF is_group(group.defaults, item)
       THEN Group(new_identifiers, group.defaults.ents[K(item)],
                  group.force_registration)
       ELSE IF is_value(group.defaults, item)
       THEN Value(new_identifiers, group.defaults.ents[K(item)])
       ELSE IF group.force_registration
       THEN Raised("AttributeError")
       ELSE Value(new_identifiers, NoneV)

\* Config._get_base_group(category, *primary_keys) of the Config `config`;
\* config.defaults maps the categories that have registered defaults to them
get_base_group_mixed(config, category, primary_keys) ==
    LET info == get_pkey_info(category, config.custom_groups)
        identifier_data ==
            IdentifierData(config.cog_name, config.unique_identifier, category,
                           primary_keys, <<>>, info.pkey_len, info.is_custom)
        defaults ==
            IF category \in DOMAIN config.defaults
            THEN config.defaults[category] ELSE DictV(<<>>)
    IN IF identifier_data.exc # "none" THEN Raised(identifier_data.exc)
       ELSE Group(identifier_data, defaults, config.force_registration)
get_base_group(config, category, primary_keys) ==
    LET info == get_pkey_info(category, config.custom_groups)
        identifier_data ==
            IdentifierData(config.cog_name, config.unique_identifier, category,
                           primary_keys, <<>>, info.pkey_len, info.is_custom)
        defaults ==
            IF Len(primary_keys) < info.pkey_len THEN DictV(<<>>)
            ELSE IF category \in DOMAIN config.defaults
                 THEN config.defaults[category] ELSE DictV(<<>>)
    IN IF identifier_data.exc # "none" THEN Raised(identifier_data.exc)
       ELSE Group(identifier_data, defaults, config.force_registration)

\* the accessor a caller reaches for address a through the Config `config`:
\* config.guild(g).<a.identifiers[1]>.<a.identifiers[2]>...
RECURSIVE AccessorOf(_, _)
AccessorOf(config, a) ==
    IF a.identifiers = <<>>
    THEN get_base_group(config, a.category, a.primary_key)
    ELSE getattr(AccessorOf(config, [a EXCEPT !.identifiers =
                                        SubSeq(@, 1, Len(@) - 1)]),
                 a.identifiers[Len(a.identifiers)])

(***************************************************************************)
(* The driver: one stored value, or nothing, per exact address.            *)
(***************************************************************************)
NotFound == [found |-> FALSE, val |-> NoneV]
Found(v) == [found |-> TRUE, val |-> v]

driver_get(st, a) == st[a]
driver_set(st, a, v) == [st EXCEPT ![a] = Found(v)]
\* removes the value if present, a no-op if absent
driver_clear(st, a) == [st EXCEPT ![a] = NotFound]

(***************************************************************************)
(* Read path.                                                              *)
(***************************************************************************)
\* merge of a found mapping with the defaults subtree
RECURSIVE nested_update(_, _)
nested_update(current, defaults) ==
    DictV([k \in (DOMAIN current.ents) \cup (DOMAIN defaults.ents) |->
             IF k \notin DOMAIN current.ents THEN defaults.ents[k]
             ELSE IF /\ k \in DOMAIN defaults.ents
                     /\ IsDict(current.ents[k])
                     /\ IsDict(defaults.ents[k])
                  THEN nested_update(current.ents[k], defaults.ents[k])
                  ELSE current.ents[k]])

\* Value._get: the stored value, or on KeyError the given default
Value_get_default(acc, st, default) == default
Value_get(acc, st, default) ==
    LET r == driver_get(st, acc.identifier_data)
    IN IF r.found THEN r.val ELSE default

\* Group._get once `default` is settled: a found (or defaulted) dict is
\* merged with it, anything else is returned as it is
Group_get_raw(acc, st, default) == Value_get(acc, st, default)
Group_get_with(acc, st, default) ==
    LET raw == Value_get(acc, st, default)
    IN IF IsDict(raw) THEN nested_update(raw, default) ELSE raw

\* Group._get with no override default
Group_get(acc, st) == Group_get_with(acc, st, acc.defaults)

\* self._get(...) as Value.__call__ evaluates it for the accessor's class
get(acc, st) ==
    IF acc.is_group THEN Group_get(acc, st) ELSE Value_get(acc, st, acc.default)

\* the `default` parameter of _get: `...` when the caller gives none
Ellipsis == [given |-> FALSE, val |-> NoneV]
Override(v) == [given |-> TRUE, val |-> v]

\* `default if default is not ... else self.default` (Value._get) and
\* `default if default is not ... else self.defaults` (Group._get)
own_only(override, own) == own
default_or_own(override, own) == IF override.given THEN override.val ELSE own

\* _get(default) of the accessor's class
get_with(acc, st, override) ==
    IF acc.is_group
    THEN Group_get_with(acc, st, default_or_own(override, acc.defaults))
    ELSE Value_get(acc, st, default_or_own(override, acc.default))

(***************************************************************************)
(* Write path.  Value.set casts the keys of a dict to str before it hands  *)
(* the value to the driver.                                                *)
(***************************************************************************)
set_value(value) == IF IsDict(value) THEN str_key_dict(value) ELSE value

(***************************************************************************)
(* The lock registry: Config._lock_cache, a WeakValueDictionary from       *)
(* address to asyncio.Lock.  An entry lives while some context manager     *)
(* refers to its lock.  holder is a history field: asyncio.Lock itself     *)
(* only knows locked and its queue of waiters.                             *)
(***************************************************************************)
NoSection == 0
NoLock ==
    [alive |-> FALSE, locked |-> FALSE, waiters |-> <<>>, holder |-> NoSection,
     fresh |-> FALSE]
\* asyncio.Lock(); fresh marks an object that was made by the call at hand
NewLock ==
    [alive |-> TRUE, locked |-> FALSE, waiters |-> <<>>, holder |-> NoSection,
     fresh |-> TRUE]

\* the key Value.get_lock looks the lock up under: the exact address
lock_key_coarse(identifier_data) == Root
lock_key(identifier_data) == identifier_data

\* Value.get_lock: _lock_cache.setdefault(identifier_data, asyncio.Lock())
get_lock_fresh(cache, identifier_data) ==
    [cache EXCEPT ![lock_key(identifier_data)] = NewLock]
get_lock(cache, identifier_data) ==
    IF cache[lock_key(identifier_data)].alive
    THEN cache
    ELSE [cache EXCEPT ![lock_key(identifier_data)] = NewLock]

\* asyncio.Lock.acquire returns at once when the lock is free and nobody queues
can_acquire_always(lk) == TRUE
can_acquire(lk) == ~lk.locked /\ lk.waiters = <<>>

\* `if self.__acquire_lock:` in __aenter__ and in __aexit__
needs_lock_never(acquire_lock) == FALSE
needs_lock(acquire_lock) == acquire_lock

\* asyncio.Lock.release: unlock and wake the first waiter
release(lk) == [lk EXCEPT !.locked = FALSE, !.holder = NoSection]
first_waiter(lk) == IF lk.waiters = <<>> THEN {} ELSE {Head(lk.waiters)}

RemoveWaiter(q, s) == SelectSeq(q, LAMBDA w : w # s)

(***************************************************************************)
(* _ValueCtxManager helpers.                                               *)
(***************************************************************************)
\* isinstance(self.raw_value, (list, dict))
is_mutable_any(v) == TRUE
is_mutable(v) == IsList(v) \/ IsDict(v)

IsContainer(v) == IsList(v) \/ IsDict(v)

\* self.raw_value.copy(): a new top-level container whose elements are the
\* SAME objects as the working copy's.  shared names the keys under which
\* the copy and the working copy hold one and the same mutable object.
\* (Lists of this model hold scalars only, which cannot be mutated.)
copy(v) ==
    [val |-> v,
     shared |-> IF IsDict(v)
                THEN {k \in DOMAIN v.ents : IsContainer(v.ents[k])}
                ELSE {}]

\* the dirty check of __aexit__
differs_always(raw_value, original_value) == TRUE
differs(raw_value, original_value) ==
    (IF IsDict(raw_value) THEN str_key_dict(raw_value) ELSE raw_value)
        # original_value

(***************************************************************************)
(* State.                                                                  *)
(***************************************************************************)
VARIABLES
    store,        \* the driver's contents: address -> Found(v) or NotFound
    lock_cache,   \* Config._lock_cache
    sec,          \* per task: its context manager and where the task stands
    faults,       \* driver failures, body exceptions and cancellations so far
    defaults,     \* Config._defaults[GUILD], the registered schema
    op,           \* the last call of _get, set, clear or set_raw made outside
                  \* a section, with what it returned (history)
    config_cache, \* _config_cache: (cog_name, unique_identifier) -> Config
    configs,      \* the Config objects, by identity
    refs,         \* the Config each client holds a reference to
    request,      \* the last request for a Config (history)
    retrieved,    \* _retrieved: the Configs get_latest_confs has returned
    latest,       \* the last call of get_latest_confs (history)
    held,         \* an accessor object a caller keeps
    got,          \* what the last _get through the kept accessor returned
    child,        \* the last request for an accessor and its outcome (history)
    mod,          \* a Mod cog: its tban_expiry_task and the tasks it made
    instances,    \* _instances of tunnel.py: lockout tuple -> Tunnel
    made,         \* the last call of Tunnel(...) and what it returned (history)
    now           \* the clock that datetime.utcnow() reads

\* the instance cache and the objects it refers to
cacheVars == <<config_cache, configs, refs, request, retrieved, latest>>
\* a kept accessor and the value it returned
keptVars == <<held, got, child>>
\* the store's schema, its driver's contents and the calls made on them
dataVars == <<store, lock_cache, sec, faults, defaults, op>>

\* the Mod cog's task and the tunnels
tunnelVars == <<instances, made, now>>
cogVars == <<mod, instances, made, now>>

vars == <<store, lock_cache, sec, faults, defaults, op,
          config_cache, configs, refs, request, retrieved, latest,
          held, got, child, mod, instances, made, now>>

\* what the steps of a section leave alone
outside == <<defaults, op, cacheVars, keptVars, cogVars>>


(***************************************************************************)
(* The instance cache.  _config_cache is a WeakValueDictionary: a key has  *)
(* an entry as long as its Config object is alive, and the object is alive *)
(* as long as some client holds a reference to it.  Objects are named by   *)
(* an identity; the identity of a dead object may be used again.           *)
(***************************************************************************)
NClients == 2
Clients == 1..NClients
ObjectIds == 1..NClients
NoObject == 0

\* cog names a request may pass; "None" is Python's None
CogNames == {"Mod", "Core", "None"}
Identifiers == {"4961522000"}
Drivers == {"d1", "d2"}
\* the drivers that have the optional migrate_identifier
Migrating == {"d2"}
\* the categories a client may register a schema for
Schemas == {"GUILD", "MEMBER"}

\* Mod.default_member_settings
MemberDefaults ==
    DictV(K("past_nicks") :> ListV(<<>>) @@ K("perms_cache") :> DictV(<<>>)
          @@ K("banned_until") :> IntV(0))

\* the schema a client registers for a category
SchemaOf(category) ==
    IF category = "GUILD" THEN GuildDefaults ELSE MemberDefaults

NoConfig ==
    [alive |-> FALSE, cog_name |-> "None", unique_identifier |-> "",
     driver |-> "", force_registration |-> FALSE, defaults |-> <<>>,
     custom_groups |-> <<>>, lock_cache |-> {}]

\* Config.__init__
Config(cog_name, unique_identifier, driver, force_registration, defs) ==
    [alive |-> TRUE, cog_name |-> cog_name,
     unique_identifier |-> unique_identifier, driver |-> driver,
     force_registration |-> force_registration, defaults |-> defs,
     custom_groups |-> <<>>, lock_cache |-> {}]

\* the Config the data belongs to, Mod's, as far as the accessors look at
\* it: made with force_registration left at its default, and with the
\* schema registered for GUILD
ModConfig == Config("Mod", "4961522000", "d1", FALSE, "GUILD" :> defaults)

\* the accessor a caller reaches for address a:
\* config.guild(g).<a.identifiers[1]>.<a.identifiers[2]>...
AccessorAt(a) == AccessorOf(ModConfig, a)

NoRequest ==
    [via |-> "none", client |-> 0, key |-> <<"None", "">>, driver |-> "",
     force_registration |-> FALSE, existed |-> NoObject, returned |-> NoObject,
     resolved |-> FALSE, migrated |-> FALSE, exc |-> "none"]

CacheKeys == CogNames \X Identifiers

\* no call of get_latest_confs yet; unseen is the Configs made since the
\* last call that are still alive
NoLatest == [called |-> FALSE, returned |-> {}, unseen |-> {}]

CacheInit ==
    /\ config_cache = [key \in CacheKeys |-> NoObject]
    /\ configs = [i \in ObjectIds |-> NoConfig]
    /\ refs = [c \in Clients |-> NoObject]
    /\ request = NoRequest
    /\ retrieved = {}
    /\ latest = NoLatest

NoAccessor ==
    [kept |-> FALSE, is_group |-> FALSE, identifier_data |-> Root,
     default |-> NoneV, defaults |-> NoneV, force_registration |-> FALSE,
     exc |-> "none"]
\* a returned value; alias says which object of the kept accessor it is:
\* "default" (Value.default), "child" (Group._defaults[item]) or "none";
\* muts counts the mutations the caller has made on returned values
NoValue ==
    [returned |-> FALSE, val |-> NoneV, alias |-> "none", item |-> "",
     muts |-> 0]

\* no accessor asked for yet
NoChild ==
    [via |-> "none", client |-> 0, category |-> "", primary_keys |-> <<>>,
     item |-> "", acc |-> Value(Root, NoneV)]

KeptInit ==
    /\ held = NoAccessor
    /\ got = NoValue
    /\ child = NoChild

\* no call made yet outside a section
(***************************************************************************)
(* The tempban expiration task of a Mod cog.  A task is made by            *)
(* asyncio.create_task and runs tempban_expirations_task: it is first      *)
(* "ready" (made, not yet run), then by turns "checking" (in               *)
(* _check_tempban_expirations) and "sleeping" (in asyncio.sleep(60)), and  *)
(* "done" at the end.  Task.cancel() only asks for the cancellation        *)
(* (must_cancel): CancelledError is raised in the task when the event loop *)
(* runs it next, and the task is done after that.  last is how the task's  *)
(* last check ended.                                                       *)
(***************************************************************************)
MaxTasks == 3           \* tasks a Mod cog makes in all
TaskIds == 1..MaxTasks
NoTask == 0

NotMade == [pc |-> "none", must_cancel |-> FALSE, last |-> "none"]

\* asyncio.create_task(self.tempban_expirations_task())
NewTask == [pc |-> "ready", must_cancel |-> FALSE, last |-> "none"]

\* Mod.__init__: tban_expiry_task = None, then start_tempban_task()
ModInit ==
    mod = [tban_expiry_task |-> 1,
           tasks |-> [t \in TaskIds |-> IF t = 1 THEN NewTask ELSE NotMade],
           loading |-> FALSE,
           \* the last of the cog's methods that returned
           last_call |-> "__init__"]

(***************************************************************************)
(* Tunnels.  A lockout tuple is ((sender, origin), recipient); _instances  *)
(* is a WeakValueDictionary from lockout tuples to Tunnels.  A Tunnel is   *)
(* told from others by the time it was made (id); last_interaction is the  *)
(* time its __init__ ran last.                                             *)
(***************************************************************************)
MaxClock == 4           \* calls of Tunnel(...) in all
Senders == {"s1", "s2"}
Origins == {"c1", "c2"}
Recipients == {"r1", "r2"}
LockoutTuples == (Senders \X Origins) \X Recipients

NoTunnel == [id |-> 0, last_interaction |-> 0]

NoCall ==
    [lockout_tuple |-> <<<<"s1", "c1">>, "r1">>, result |-> "none",
     returned |-> NoTunnel, before |-> [k \in LockoutTuples |-> NoTunnel]]

TunnelInit ==
    /\ instances = [k \in LockoutTuples |-> NoTunnel]
    /\ made = NoCall
    /\ now = 0

CogInit == ModInit /\ TunnelInit

NoOp ==
    [kind |-> "none", addr |-> Root, arg |-> NoneV, override |-> Ellipsis,
     result |-> NoneV, exc |-> "none", found |-> FALSE, before |-> NoneV,
     handed |-> NoneV, during |-> NoSection, n |-> 0, calls |-> <<>>,
     prev |-> [kind |-> "none", addr |-> Root, found |-> FALSE]]

IdleSection ==
    [pc |-> "idle", kind |-> "section", addr |-> Root, acquire_lock |-> TRUE,
     raw_value |-> NoneV, original_value |-> NoneV, shared |-> {},
     fut_done |-> FALSE, exc |-> "none", body_exc |-> "none",
     calls |-> <<>>, muts |-> 0,
     \* history
     seen |-> NoneV, seen_found |-> FALSE, acquired |-> FALSE,
     entered |-> FALSE, top_added |-> FALSE, nested_changed |-> FALSE,
     cancel_at |-> "none", wrote |-> FALSE, waited |-> FALSE,
     did_read |-> FALSE,
     \* is the Lock object the manager holds the one the registry has
     same_lock |-> TRUE,
     \* the ids an expiration pass has taken off its list
     removed |-> {},
     \* an expiration pass: the ids of the copy still to go through, the
     \* flag `changed`, and what happened for each id gone through
     todo |-> <<>>, changed |-> FALSE, log |-> <<>>,
     \* a tempban command: has banned_until.set returned
     until_set |-> FALSE]

Init ==
    /\ store = [a \in Addrs |-> NotFound]
    /\ lock_cache = [a \in Addrs |-> NoLock]
    /\ sec = [s \in Sections |-> IdleSection]
    /\ faults = 0
    /\ defaults = GuildDefaults
    /\ op = NoOp
    /\ CacheInit
    /\ KeptInit
    /\ CogInit

LockOf(s) == lock_key(sec[s].addr)

RECURSIVE SumMuts(_)
SumMuts(S) ==
    IF S = {} THEN 0
    ELSE LET s == CHOOSE x \in S : TRUE IN sec[s].muts + SumMuts(S \ {s})

Mutations == SumMuts(Sections)

\* sec with the first waiter of lk woken (its future resolved)
WakeFirst(sc, lk) ==
    [w \in Sections |->
       IF w \in first_waiter(lk) THEN [sc[w] EXCEPT !.fut_done = TRUE] ELSE sc[w]]

\* does task w's context manager refer to the lock under key
Refers(w, key) ==
    /\ sec[w].pc \notin {"idle", "snapshot", "done", "gone"}
    /\ lock_key(sec[w].addr) = key

\* the `finally` of __aexit__ run by s, after which s is done with exception e
\* and the `async with` statement lets go of the context manager; sc is sec as
\* the rest of __aexit__ left it.  A lock nothing refers to any more drops out
\* of the weak registry.
Finally(s, sc, e) ==
    LET key == LockOf(s)
        lk == lock_cache[key]
        releases == needs_lock(sec[s].acquire_lock) /\ lk.locked
        \* release() of a lock that is not locked raises RuntimeError
        raised == IF needs_lock(sec[s].acquire_lock) /\ ~lk.locked
                  THEN "RuntimeError" ELSE e
    IN /\ sec' = [(IF releases THEN WakeFirst(sc, lk) ELSE sc)
                    EXCEPT ![s].pc = "done", ![s].exc = raised]
       /\ lock_cache' = [lock_cache EXCEPT ![key] =
                           IF \E w \in Sections \ {s} : Refers(w, key)
                           THEN (IF releases THEN release(lk) ELSE lk)
                           ELSE NoLock]

(***************************************************************************)
(* Actions.  Each is what task s runs from one suspension point to the     *)
(* next.                                                                   *)
(***************************************************************************)

\* `async with value(acquire_lock=acq) as v:` on address a: Value.__call__,
\* _ValueCtxManager.__init__ (which fetches the lock) and __aenter__ up to its
\* first await that suspends: the lock's queue, or the driver read.
Call(s, a, acq) ==
    /\ sec[s].pc = "idle"
    /\ UNCHANGED outside
    /\ LET got_lock == get_lock(lock_cache, a)
           key == lock_key(a)
           lk == [got_lock[key] EXCEPT !.fresh = FALSE]
           cache == [got_lock EXCEPT ![key] = lk]
           me == [sec[s] EXCEPT !.addr = a, !.acquire_lock = acq]
           \* a Lock object put in the place of one that context managers
           \* hold: theirs is not the registry's any more
           rest == [w \in Sections |->
                      IF got_lock[key].fresh /\ Refers(w, key)
                      THEN [sec[w] EXCEPT !.same_lock = FALSE] ELSE sec[w]]
       IN IF ~needs_lock(acq)
          THEN /\ lock_cache' = cache
               /\ sec' = [rest EXCEPT ![s] = [me EXCEPT !.pc = "reading"]]
          ELSE IF can_acquire(lk)
          THEN /\ lock_cache' = [cache EXCEPT ![key] =
                                   [lk EXCEPT !.locked = TRUE, !.holder = s]]
               /\ sec' = [rest EXCEPT ![s] =
                            [me EXCEPT !.pc = "reading", !.acquired = TRUE]]
          ELSE /\ lock_cache' = [cache EXCEPT ![key].waiters = Append(@, s)]
               /\ sec' = [rest EXCEPT ![s] =
                            [me EXCEPT !.pc = "waiting", !.waited = TRUE]]
    /\ UNCHANGED <<store, faults>>

\* the waiter's future was resolved by a release: lock.acquire() returns
Wake(s) ==
    /\ sec[s].pc = "waiting"
    /\ UNCHANGED outside
    /\ sec[s].fut_done
    /\ lock_cache' = [lock_cache EXCEPT ![LockOf(s)] =
                        [@ EXCEPT !.waiters = RemoveWaiter(@, s),
                                  !.locked = TRUE, !.holder = s]]
    /\ sec' = [sec EXCEPT ![s].pc = IF sec[s].kind = "pass" THEN "checking"
                                     ELSE "reading",
                          ![s].fut_done = FALSE,
                          ![s].acquired = TRUE]
    /\ UNCHANGED <<store, faults>>

\* `self.raw_value = await self.coro` and the rest of __aenter__.  ok is
\* whether Driver.get answered (a value or not-found) or failed.  When
\* __aenter__ raises, `async with` does not call __aexit__.
Read(s, ok) ==
    /\ sec[s].pc = "reading"
    /\ UNCHANGED outside
    /\ ok \/ faults < MaxFaults
    /\ faults' = IF ok THEN faults ELSE faults + 1
    /\ LET acc == AccessorAt(sec[s].addr)
           v == get(acc, store)
           c == copy(v)
           called == [sec[s] EXCEPT !.calls = Append(@, "get")]
           read == [called EXCEPT !.raw_value = v, !.seen = v, !.did_read = TRUE,
                                  !.seen_found = store[sec[s].addr].found]
       IN sec' = [sec EXCEPT ![s] =
                    IF ~ok
                    THEN [called EXCEPT !.pc = "failed", !.exc = "DriverFailure"]
                    ELSE IF ~is_mutable(v)
                    THEN [read EXCEPT !.pc = "failed", !.exc = "TypeError"]
                    ELSE [read EXCEPT !.pc = "body", !.entered = TRUE,
                                      !.original_value = c.val,
                                      !.shared = c.shared]]
    /\ UNCHANGED <<store, lock_cache>>

\* the body adds its own element to the working copy: v.append(s) on a
\* list, v[str(s)] = s on a dict
MutateTop(s) ==
    /\ sec[s].pc = "body"
    /\ UNCHANGED outside
    /\ Mutations < MaxMutations
    /\ LET raw == sec[s].raw_value
           new == IF IsList(raw) THEN ListAppend(raw, IntV(s))
                  ELSE DictSet(raw, K(ToString(s)), IntV(s))
       IN sec' = [sec EXCEPT ![s].raw_value = new, ![s].muts = @ + 1,
                             ![s].top_added = TRUE]
    /\ UNCHANGED <<store, lock_cache, faults>>

\* the keys of the working copy under which a body mutates what it finds
NestedKeys == {K("current_tempbans")}

\* the body mutates in place the container found under key k of the working
\* copy: v[k].append(s) or v[k]["strict"] = s.  The object is mutated, so every
\* holder of that same object sees the change.
MutateNested(s, k) ==
    /\ sec[s].pc = "body"
    /\ UNCHANGED outside
    /\ Mutations < MaxMutations
    /\ IsDict(sec[s].raw_value)
    /\ k \in DOMAIN sec[s].raw_value.ents
    /\ IsContainer(sec[s].raw_value.ents[k])
    /\ LET raw == sec[s].raw_value
           old == raw.ents[k]
           new == IF IsList(old) THEN ListAppend(old, IntV(s))
                  ELSE DictSet(old, K("strict"), IntV(s))
       IN sec' = [sec EXCEPT
                    ![s].raw_value = DictSet(raw, k, new),
                    ![s].original_value =
                        IF k \in sec[s].shared THEN DictSet(@, k, new) ELSE @,
                    ![s].muts = @ + 1,
                    ![s].nested_changed = TRUE]
    /\ UNCHANGED <<store, lock_cache, faults>>

\* the body ends (how = "none"), raises ("Error") or is cancelled at an await
\* of its own ("Cancelled"); __aexit__ runs up to the await of the driver
\* write, or to its end when nothing is to be written
BodyExit(s, how) ==
    /\ sec[s].pc = "body"
    /\ UNCHANGED outside
    /\ how = "none" \/ faults < MaxFaults
    /\ faults' = IF how = "none" THEN faults ELSE faults + 1
    /\ LET acc == AccessorAt(sec[s].addr)
           left == [sec EXCEPT ![s].cancel_at =
                      IF how = "Cancelled" THEN "body" ELSE @]
       IN IF differs(sec[s].raw_value, sec[s].original_value)
          THEN IF acc.is_group /\ ~IsDict(sec[s].raw_value)
               THEN \* Group.set refuses a value that is no dict
                    /\ Finally(s, left, "ValueError")
                    /\ UNCHANGED store
               ELSE /\ sec' = [left EXCEPT ![s].pc = "writing",
                                           ![s].body_exc = how,
                                           ![s].calls = Append(@, "set")]
                    /\ UNCHANGED <<store, lock_cache>>
          ELSE /\ Finally(s, left, how)
               /\ UNCHANGED store

\* Driver.set returns (ok) or fails; then the `finally` of __aexit__
Write(s, ok) ==
    /\ sec[s].pc = "writing"
    /\ UNCHANGED outside
    /\ ok \/ faults < MaxFaults
    /\ faults' = IF ok THEN faults ELSE faults + 1
    /\ IF ok
       THEN /\ store' = driver_set(store, sec[s].addr, set_value(sec[s].raw_value))
            /\ Finally(s, [sec EXCEPT ![s].wrote = TRUE], sec[s].body_exc)
       ELSE /\ UNCHANGED store
            /\ Finally(s, sec, "DriverFailure")

\* the task is cancelled while suspended in __aenter__ or __aexit__
Cancel(s) ==
    /\ sec[s].pc \in {"waiting", "reading", "writing"}
    /\ UNCHANGED outside
    /\ faults < MaxFaults
    /\ faults' = faults + 1
    /\ UNCHANGED store
    /\ LET lk == lock_cache[LockOf(s)]
           left == [sec EXCEPT ![s].cancel_at = sec[s].pc]
       IN CASE sec[s].pc = "waiting" ->
                 \* asyncio.Lock.acquire: leave the queue, pass a wake-up on
                 LET q == [lk EXCEPT !.waiters = RemoveWaiter(@, s)]
                 IN /\ lock_cache' = [lock_cache EXCEPT ![LockOf(s)] = q]
                    /\ sec' = [(IF ~lk.locked THEN WakeFirst(left, q) ELSE left)
                                 EXCEPT ![s].pc = "failed",
                                        ![s].exc = "Cancelled",
                                        ![s].fut_done = FALSE]
            [] sec[s].pc = "reading" ->
                 /\ sec' = [left EXCEPT ![s].pc = "failed", ![s].exc = "Cancelled"]
                 /\ UNCHANGED lock_cache
            [] OTHER -> Finally(s, left, "Cancelled")

\* The context manager of a section whose __aenter__ raised stays alive as
\* long as the exception does (its traceback refers to the manager), and
\* with it the lock.  Once such sections are all that refers to the lock
\* under key, they may be freed, and the lock then drops out of the weak
\* registry, whatever its state.
Drop(key) ==
    /\ lock_cache[key].alive
    /\ UNCHANGED outside
    /\ \A w \in Sections : Refers(w, key) => sec[w].pc = "failed"
    /\ sec' = [w \in Sections |->
                 IF Refers(w, key) THEN [sec[w] EXCEPT !.pc = "gone"] ELSE sec[w]]
    /\ lock_cache' = [lock_cache EXCEPT ![key] = NoLock]
    /\ UNCHANGED <<store, faults>>

Next ==
    \/ \E key \in Addrs : Drop(key)
    \/ \E s \in Sections :
        \/ \E a \in Addrs, acq \in {TRUE} \cup {FALSE : x \in {s} \cap OptOutCallers} :
               Call(s, a, acq)
        \/ Wake(s)
        \/ \E ok \in BOOLEAN : Read(s, ok)
        \/ MutateTop(s)
        \/ \E k \in NestedKeys : MutateNested(s, k)
        \/ \E how \in {"none", "Error", "Cancelled"} : BodyExit(s, how)
        \/ \E ok \in BOOLEAN : Write(s, ok)
        \/ Cancel(s)

Spec == Init /\ [][Next]_vars

\* Scheduling: the event loop runs every task whose future is resolved, a
\* driver call ends and the body of a section ends.  Nothing forces a task
\* to open a section, a fault, a mutation or the freeing of an exception.
Progress(s) ==
    \/ Wake(s)
    \/ Read(s, TRUE)
    \/ BodyExit(s, "none")
    \/ Write(s, TRUE)

FairSpec == Spec /\ \A s \in Sections : WF_vars(Progress(s))

(***************************************************************************)
(* The tempban expiration pass of the Mod cog (_check_tempban_expirations) *)
(* for the guild of the model, run by task s: it reads the data of all     *)
(* guilds, goes through the guilds (awaiting for each), and for the guild  *)
(* takes the lock of current_tempbans, unbans the members of the list it   *)
(* read whose ban is over, and sets the list when it took an id off it.    *)
(***************************************************************************)
\* where the time a member's tempban ends is stored:
\* config.member_from_ids(guild.id, uid).banned_until
BannedUntil(uid) ==
    IdentifierData("Mod", "4961522000", "MEMBER", <<"g", ToString(uid.n)>>,
                   <<"banned_until">>, 2, FALSE)

\* guilds_data = await self.config.all_guilds() and, when the loop reaches
\* the guild, guild_tempbans = guild_data.get("current_tempbans", []); a
\* guild with no tempbans is skipped.  The list is the task's own until the
\* check goes through it, so the copy the check makes has these elements.
PassRead(s) ==
    /\ sec[s].pc = "idle"
    /\ UNCHANGED outside
    /\ LET v == get(AccessorAt(Tempbans), store)
       IN sec' = [sec EXCEPT ![s] =
                    [@ EXCEPT !.kind = "pass", !.addr = Tempbans,
                              !.raw_value = v, !.seen = v, !.did_read = TRUE,
                              !.seen_found = store[Tempbans].found,
                              !.calls = <<"get">>,
                              !.todo = v.items,
                              !.pc = IF v.items = <<>> THEN "done"
                                     ELSE "snapshot"]]
    /\ UNCHANGED <<store, lock_cache, faults>>

\* `async with self.config.guild(guild).current_tempbans.get_lock():` up to
\* the lock's queue
PassLock_unlocked(s) ==
    /\ sec[s].pc = "snapshot"
    /\ UNCHANGED outside
    /\ sec' = [sec EXCEPT ![s].pc = "checking", ![s].acquire_lock = FALSE]
    /\ UNCHANGED <<store, lock_cache, faults>>
PassLock(s) ==
    /\ sec[s].pc = "snapshot"
    /\ UNCHANGED outside
    /\ LET got_lock == get_lock(lock_cache, sec[s].addr)
           key == lock_key(sec[s].addr)
           lk == [got_lock[key] EXCEPT !.fresh = FALSE]
           cache == [got_lock EXCEPT ![key] = lk]
           rest == [w \in Sections |->
                      IF got_lock[key].fresh /\ Refers(w, key)
                      THEN [sec[w] EXCEPT !.same_lock = FALSE] ELSE sec[w]]
       IN IF can_acquire(lk)
          THEN /\ lock_cache' = [cache EXCEPT ![key] =
                                   [lk EXCEPT !.locked = TRUE, !.holder = s]]
               /\ sec' = [rest EXCEPT ![s].pc = "checking",
                                      ![s].acquired = TRUE]
          ELSE /\ lock_cache' = [cache EXCEPT ![key].waiters = Append(@, s)]
               /\ sec' = [rest EXCEPT ![s].pc = "waiting", ![s].waited = TRUE]
    /\ UNCHANGED <<store, faults>>

\* list.remove(x) for an x that is in q: q without the first x
remove(q, x) ==
    LET i == CHOOSE j \in 1..Len(q) :
                 q[j] = x /\ \A k \in 1..(j - 1) : q[k] # x
    IN SubSeq(q, 1, i - 1) \o SubSeq(q, i + 1, Len(q))

\* What guild.unban does for an id when it is called:
\*   "unbanned"       it returns
\*   "NotFound"       it raises discord.NotFound
\*   "Forbidden"      it raises HTTPException with code 50013 or 403
\*   "HTTPException"  it raises HTTPException with another code
\*   "Error"          it, or banned_until() before it, raises something else
Outcomes == {"unbanned", "NotFound", "Forbidden", "HTTPException", "Error"}

\* one turn of the loop of _check_guild_tempban_expirations for uid, when
\* nothing is raised out of it: expired is `datetime.now() > unban_time`,
\* outcome what guild.unban does; the list, `changed`, and whether the loop
\* is left (break)
unban_step_lenient(guild_tempbans, changed, uid, expired, outcome) ==
    IF expired /\ outcome \in {"unbanned", "NotFound", "HTTPException"}
    THEN [list |-> remove(guild_tempbans, uid), changed |-> TRUE,
          stop |-> FALSE]
    ELSE [list |-> guild_tempbans, changed |-> changed,
          stop |-> expired /\ outcome = "Forbidden"]
unban_step(guild_tempbans, changed, uid, expired, outcome) ==
    IF expired /\ outcome \in {"unbanned", "NotFound"}
    THEN [list |-> remove(guild_tempbans, uid), changed |-> TRUE,
          stop |-> FALSE]
    ELSE [list |-> guild_tempbans, changed |-> changed,
          stop |-> expired /\ outcome = "Forbidden"]

\* _check_guild_tempban_expirations under the lock, one id of the copy at a
\* time (each turn awaits banned_until() and guild.unban).  banned_until is
\* the member's stored time or the registered default False, which
\* datetime.fromtimestamp takes for 0: a ban with nothing stored is over.
\* After the last turn, or a break, the function returns `changed` and, when
\* that is true, current_tempbans.set(guild_tempbans) is called; otherwise
\* the `async with` ends.  An exception leaves the `async with` at once.
PassUid(s, expired, outcome) ==
    /\ sec[s].pc = "checking"
    /\ sec[s].todo # <<>>
    /\ UNCHANGED outside
    /\ outcome = "Error" => faults < MaxFaults
    /\ faults' = IF outcome = "Error" THEN faults + 1 ELSE faults
    /\ LET uid == Head(sec[s].todo)
           stored == store[BannedUntil(uid)].found
           r == unban_step(sec[s].raw_value.items, sec[s].changed, uid,
                           expired, outcome)
           left == IF r.stop THEN <<>> ELSE Tail(sec[s].todo)
           logged == [sec EXCEPT ![s].log =
                        Append(@, [uid |-> uid, expired |-> expired,
                                   outcome |-> outcome, stored |-> stored])]
           gone == [logged EXCEPT
                      ![s].raw_value = ListV(r.list),
                      ![s].changed = r.changed,
                      ![s].todo = left,
                      ![s].removed = IF r.list # sec[s].raw_value.items
                                     THEN @ \cup {uid} ELSE @]
       IN /\ ~expired => stored
          /\ IF outcome = "Error" THEN Finally(s, logged, "Error")
             ELSE IF left # <<>>
             THEN sec' = gone /\ UNCHANGED lock_cache
             ELSE IF r.changed
             THEN /\ sec' = [gone EXCEPT ![s].pc = "writing",
                                         ![s].calls = Append(@, "set")]
                  /\ UNCHANGED lock_cache
             ELSE Finally(s, gone, "none")
    /\ UNCHANGED store

(***************************************************************************)
(* The tempban command, run by task s for the member with id s:            *)
(* `await self.config.member(member).banned_until.set(...)` and then the   *)
(* section that appends the id to current_tempbans.                        *)
(***************************************************************************)
\* banned_until.set(unban_time.timestamp()); a driver failure ends the
\* command
TempbanUntil(s, ok) ==
    /\ sec[s].pc = "idle"
    /\ ~sec[s].until_set
    /\ UNCHANGED outside
    /\ ok \/ faults < MaxFaults
    /\ faults' = IF ok THEN faults ELSE faults + 1
    /\ IF ok
       THEN /\ store' = driver_set(store, BannedUntil(IntV(s)), IntV(1))
            /\ sec' = [sec EXCEPT ![s].until_set = TRUE]
       ELSE /\ UNCHANGED store
            /\ sec' = [sec EXCEPT ![s].pc = "done",
                                  ![s].exc = "DriverFailure"]
    /\ UNCHANGED lock_cache

\* `async with self.config.guild(guild).current_tempbans() as
\* current_tempbans:`, the statement after banned_until.set
TempbanCall_unordered(s) == Call(s, Tempbans, TRUE)
TempbanCall(s) == sec[s].until_set /\ Call(s, Tempbans, TRUE)

\* current_tempbans.append(member.id), the one statement of the body
TempbanAppend(s) == ~sec[s].top_added /\ MutateTop(s)

(***************************************************************************)
(* Calls made outside a section: `await acc._get(default)`,                *)
(* `await acc.set(value)`, `await acc.clear()` and                         *)
(* `await group.set_raw(path, value=value)`, on an accessor the caller     *)
(* has just reached (config.guild(g).<...>).  None of them looks at the    *)
(* lock registry; each suspends once, in its one driver call.  ok says     *)
(* whether that call succeeds or the driver raises something that is not   *)
(* KeyError (DriverFailure); a call that fails leaves the driver's         *)
(* contents as they were.  op records the call: what the driver had at the *)
(* address (found, before), the driver calls made (calls), what was handed *)
(* to Driver.set (handed), what the call returned or raised, which section *)
(* held the lock of the address at the time (during), and the call made    *)
(* before it (prev).                                                       *)
(***************************************************************************)
Called(kind, a) ==
    [NoOp EXCEPT !.kind = kind, !.addr = a, !.n = op.n + 1,
                 !.prev = [kind |-> op.kind, addr |-> op.addr, found |-> op.found],
                 !.found = store[a].found, !.before = store[a].val,
                 !.during = lock_cache[lock_key(a)].holder]

\* the driver raises: the guard and the count of a call that fails
Fails(ok) ==
    /\ ~ok => faults < MaxFaults
    /\ faults' = IF ok THEN faults ELSE faults + 1

\* Value._get / Group._get: only KeyError is caught
Get_retried(a, override, ok) ==
    /\ op.n < MaxCalls
    /\ Fails(ok)
    /\ op' = [Called("get", a) EXCEPT
                !.override = override,
                !.calls = IF ok THEN <<"get">> ELSE <<"get", "get">>,
                !.result = get_with(AccessorAt(a), store, override)]
    /\ UNCHANGED <<store, lock_cache, sec, defaults, cacheVars, keptVars, cogVars>>
Get(a, override, ok) ==
    /\ op.n < MaxCalls
    /\ Fails(ok)
    /\ op' = IF ok
             THEN [Called("get", a) EXCEPT
                     !.override = override, !.calls = <<"get">>,
                     !.result = get_with(AccessorAt(a), store, override)]
             ELSE [Called("get", a) EXCEPT
                     !.override = override, !.calls = <<"get">>,
                     !.exc = "DriverFailure"]
    /\ UNCHANGED <<store, lock_cache, sec, defaults, cacheVars, keptVars, cogVars>>

\* Value.set / Group.set
Set_serialized(a, value, ok) ==
    /\ op.n < MaxCalls
    /\ Fails(ok)
    /\ ~lock_cache[lock_key(a)].locked
    /\ op' = [Called("set", a) EXCEPT !.arg = value, !.calls = <<"set">>,
                                      !.handed = set_value(value)]
    /\ store' = driver_set(store, a, set_value(value))
    /\ UNCHANGED <<lock_cache, sec, defaults, cacheVars, keptVars, cogVars>>
Set_unchecked(a, value, ok) ==
    /\ op.n < MaxCalls
    /\ Fails(ok)
    /\ op' = [Called("set", a) EXCEPT !.arg = value, !.calls = <<"set">>,
                                      !.handed = set_value(value)]
    /\ store' = driver_set(store, a, set_value(value))
    /\ UNCHANGED <<lock_cache, sec, defaults, cacheVars, keptVars, cogVars>>
Set(a, value, ok) ==
    /\ op.n < MaxCalls
    /\ UNCHANGED <<lock_cache, sec, defaults, cacheVars, keptVars, cogVars>>
    /\ IF AccessorAt(a).is_group /\ ~IsDict(value)
       THEN /\ ok
            /\ op' = [Called("set", a) EXCEPT !.arg = value, !.exc = "ValueError"]
            /\ UNCHANGED <<store, faults>>
       ELSE /\ Fails(ok)
            /\ op' = [Called("set", a) EXCEPT
                        !.arg = value, !.calls = <<"set">>,
                        !.handed = set_value(value),
                        !.exc = IF ok THEN "none" ELSE "DriverFailure"]
            /\ store' = IF ok THEN driver_set(store, a, set_value(value))
                        ELSE store

\* Value.clear
Clear_kept(a, ok) ==
    /\ op.n < MaxCalls
    /\ Fails(ok)
    /\ op' = [Called("clear", a) EXCEPT !.calls = <<"clear">>]
    /\ UNCHANGED <<store, lock_cache, sec, defaults, cacheVars, keptVars, cogVars>>
Clear(a, ok) ==
    /\ op.n < MaxCalls
    /\ Fails(ok)
    /\ op' = [Called("clear", a) EXCEPT
                !.calls = <<"clear">>,
                !.exc = IF ok THEN "none" ELSE "DriverFailure"]
    /\ store' = IF ok THEN driver_clear(store, a) ELSE store
    /\ UNCHANGED <<lock_cache, sec, defaults, cacheVars, keptVars, cogVars>>

\* Group.set_raw on the root group, a being the nested path
SetRaw(a, value, ok) ==
    /\ op.n < MaxCalls
    /\ Fails(ok)
    /\ op' = [Called("set_raw", a) EXCEPT
                !.arg = value, !.calls = <<"set">>, !.handed = value,
                !.exc = IF ok THEN "none" ELSE "DriverFailure"]
    /\ store' = IF ok THEN driver_set(store, a, value) ELSE store
    /\ UNCHANGED <<lock_cache, sec, defaults, cacheVars, keptVars, cogVars>>

(***************************************************************************)
(* Sections under a schema that has a key which is not a str: a cog that   *)
(* registered mention_spam={1: 0} for its guilds.                          *)
(***************************************************************************)
IntKeyDefaults ==
    [GuildDefaults EXCEPT !.ents[K("mention_spam")] = DictV(IK("1") :> IntV(0))]

KeyInit ==
    /\ store = [a \in Addrs |-> NotFound]
    /\ lock_cache = [a \in Addrs |-> NoLock]
    /\ sec = [s \in Sections |-> IdleSection]
    /\ faults = 0
    /\ defaults = IntKeyDefaults
    /\ op = NoOp
    /\ CacheInit
    /\ KeptInit
    /\ CogInit

KeySpec == KeyInit /\ [][Next]_vars

(***************************************************************************)
(* Sections with calls from outside them in between.  A caller outside     *)
(* sets one value per address: a list, a scalar, a mapping.                *)
(***************************************************************************)
PlainValue(a) ==
    CASE a = Tempbans -> ListV(<<IntV(9)>>)
      [] a = DefaultDays -> IntV(7)
      [] OTHER -> DictV([k \in {K("default_days")} |-> IntV(7)])

\* the one task that runs a section while the calls from outside are made
PlainSections == {1}

\* the steps of an exclusive section when nothing fails and nothing is
\* cancelled, and the calls from outside
PlainNext ==
    \/ \E key \in Addrs : Drop(key)
    \/ \E s \in PlainSections :
        \/ \E a \in Addrs : Call(s, a, TRUE)
        \/ Read(s, TRUE)
        \/ MutateTop(s)
        \/ \E k \in NestedKeys : MutateNested(s, k)
        \/ BodyExit(s, "none")
        \/ Write(s, TRUE)
    \/ \E a \in Addrs :
        \/ Get(a, Ellipsis, TRUE)
        \/ Set(a, PlainValue(a), TRUE)
        \/ Clear(a, TRUE)

PlainSpec == Init /\ [][PlainNext]_vars

(***************************************************************************)
(* A section and calls from outside it, with a driver that may fail: any   *)
(* Driver.get, Driver.set or Driver.clear may raise an error that is not   *)
(* KeyError.  The section is opened with or without acquire_lock, and its  *)
(* body may raise.                                                         *)
(***************************************************************************)
FaultNext ==
    \/ \E key \in Addrs : Drop(key)
    \/ \E s \in PlainSections :
        \/ \E a \in Addrs, acq \in BOOLEAN : Call(s, a, acq)
        \/ \E ok \in BOOLEAN : Read(s, ok)
        \/ MutateTop(s)
        \/ \E k \in NestedKeys : MutateNested(s, k)
        \/ \E how \in {"none", "Error"} : BodyExit(s, how)
        \/ \E ok \in BOOLEAN : Write(s, ok)
    \/ \E a \in Addrs, ok \in BOOLEAN :
        \/ Get(a, Ellipsis, ok)
        \/ Set(a, PlainValue(a), ok)
        \/ Clear(a, ok)

FaultSpec == Init /\ [][FaultNext]_vars

(***************************************************************************)
(* Tempbans and the expiration pass.  One task runs the pass, the others   *)
(* each run the section of the tempban command, which appends the id of    *)
(* the banned member; the ids of members banned earlier are stored, and    *)
(* so are the times their bans end.  The driver may fail.                  *)
(***************************************************************************)
PassTasks == {1}

\* the ids of members banned before
Earlier == {IntV(8), IntV(9)}

\* the lists stored at the start
EarlierLists == {<<IntV(9)>>, <<IntV(8), IntV(9)>>}

\* the members whose ids the lists may hold
Members == Earlier \cup {IntV(s) : s \in Sections}

TempbanInit ==
    /\ \E q \in EarlierLists :
           store = [a \in Addrs \cup {BannedUntil(u) : u \in Members} |->
                      IF a = Tempbans THEN Found(ListV(q))
                      ELSE IF a \in {BannedUntil(u) : u \in Earlier}
                      THEN Found(IntV(1))
                      ELSE NotFound]
    /\ lock_cache = [a \in Addrs |-> NoLock]
    /\ sec = [s \in Sections |-> IdleSection]
    /\ faults = 0
    /\ defaults = GuildDefaults
    /\ op = NoOp
    /\ CacheInit
    /\ KeptInit
    /\ CogInit

TempbanNext ==
    \/ \E key \in Addrs : Drop(key)
    \/ \E s \in PassTasks :
        \/ PassRead(s)
        \/ PassLock(s)
        \/ \E expired \in BOOLEAN, outcome \in Outcomes :
               PassUid(s, expired, outcome)
    \/ \E s \in Sections \ PassTasks :
        \/ \E ok \in BOOLEAN : TempbanUntil(s, ok)
        \/ TempbanCall(s)
        \/ \E ok \in BOOLEAN : Read(s, ok)
        \/ TempbanAppend(s)
        \/ BodyExit(s, "none")
    \/ \E s \in Sections :
        \/ Wake(s)
        \/ \E ok \in BOOLEAN : Write(s, ok)

TempbanSpec == TempbanInit /\ [][TempbanNext]_vars

(***************************************************************************)
(* The life of the Mod cog's expiration task: the cog's methods, which run *)
(* without suspending (cog_load but for its one await), and the steps of   *)
(* the tasks, which the event loop runs one at a time.                     *)
(***************************************************************************)
\* Task.done()
done(task) == task.pc = "done"

\* the id asyncio.create_task gives the next task
NextTask(m) ==
    IF \E t \in TaskIds : m.tasks[t].pc = "none"
    THEN CHOOSE t \in TaskIds :
             m.tasks[t].pc = "none" /\ \A u \in 1..(t - 1) : m.tasks[u].pc # "none"
    ELSE NoTask

\* Mod.start_tempban_task
start_tempban_task_always(m) ==
    [m EXCEPT !.tban_expiry_task = NextTask(m),
              !.tasks[NextTask(m)] = NewTask]
start_tempban_task(m) ==
    IF m.tban_expiry_task = NoTask \/ done(m.tasks[m.tban_expiry_task])
    THEN [m EXCEPT !.tban_expiry_task = NextTask(m),
                   !.tasks[NextTask(m)] = NewTask]
    ELSE m

\* Task.cancel(): nothing for a task that is done
cancel(task) == IF done(task) THEN task ELSE [task EXCEPT !.must_cancel = TRUE]

\* Mod.cog_unload
cog_unload_kept(m) ==
    IF m.tban_expiry_task # NoTask
    THEN [m EXCEPT !.tasks[m.tban_expiry_task] = cancel(@)]
    ELSE m
cog_unload(m) ==
    IF m.tban_expiry_task # NoTask
    THEN [m EXCEPT !.tasks[m.tban_expiry_task] = cancel(@),
                   !.tban_expiry_task = NoTask]
    ELSE m

\* a call of start_tempban_task from outside the cog's own methods
StartTempbanTask ==
    /\ NextTask(mod) # NoTask
    /\ mod' = [start_tempban_task(mod) EXCEPT !.last_call = "start_tempban_task"]
    /\ UNCHANGED <<dataVars, cacheVars, keptVars, tunnelVars>>

\* cog_load up to `await self._maybe_update_config()`
CogLoadBegin ==
    /\ ~mod.loading
    /\ mod' = [mod EXCEPT !.loading = TRUE]
    /\ UNCHANGED <<dataVars, cacheVars, keptVars, tunnelVars>>

\* the rest of cog_load: self.start_tempban_task()
CogLoadEnd ==
    /\ mod.loading
    /\ NextTask(mod) # NoTask
    /\ mod' = [start_tempban_task(mod) EXCEPT !.loading = FALSE,
                                              !.last_call = "cog_load"]
    /\ UNCHANGED <<dataVars, cacheVars, keptVars, tunnelVars>>

CogUnload ==
    /\ mod' = [cog_unload(mod) EXCEPT !.last_call = "cog_unload"]
    /\ UNCHANGED <<dataVars, cacheVars, keptVars, tunnelVars>>

\* the event loop runs task t, for which no cancellation is asked
Runs(t) == mod.tasks[t].pc \notin {"none", "done"} /\ ~mod.tasks[t].must_cancel

\* tempban_expirations_task from its start to the first await of the check
TaskStart(t) ==
    /\ Runs(t)
    /\ mod.tasks[t].pc = "ready"
    /\ mod' = [mod EXCEPT !.tasks[t].pc = "checking"]
    /\ UNCHANGED <<dataVars, cacheVars, keptVars, tunnelVars>>

\* how a check ends: it returns ("ok"), raises an Exception, which
\* `except Exception` catches and logs, or raises a BaseException that is no
\* Exception, which nothing in the task catches
Ends == {"ok", "Exception", "BaseException"}

\* _check_tempban_expirations ends; the task goes on to asyncio.sleep(60) or
\* is done
CheckEnds_fatal(t, how) ==
    /\ Runs(t)
    /\ mod.tasks[t].pc = "checking"
    /\ mod' = [mod EXCEPT !.tasks[t].last = how,
                          !.tasks[t].pc = IF how # "ok" THEN "done"
                                          ELSE "sleeping"]
    /\ UNCHANGED <<dataVars, cacheVars, keptVars, tunnelVars>>
CheckEnds(t, how) ==
    /\ Runs(t)
    /\ mod.tasks[t].pc = "checking"
    /\ mod' = [mod EXCEPT !.tasks[t].last = how,
                          !.tasks[t].pc = IF how = "BaseException" THEN "done"
                                          ELSE "sleeping"]
    /\ UNCHANGED <<dataVars, cacheVars, keptVars, tunnelVars>>

\* the sleep is over: the loop starts the next check
SleepEnds(t) ==
    /\ Runs(t)
    /\ mod.tasks[t].pc = "sleeping"
    /\ mod' = [mod EXCEPT !.tasks[t].pc = "checking"]
    /\ UNCHANGED <<dataVars, cacheVars, keptVars, tunnelVars>>

\* the event loop runs a task for which the cancellation is asked:
\* CancelledError, a BaseException, is raised at the await the task is
\* suspended in (or before its first step) and ends it
Cancelled(t) ==
    /\ mod.tasks[t].pc \notin {"none", "done"}
    /\ mod.tasks[t].must_cancel
    /\ mod' = [mod EXCEPT !.tasks[t].pc = "done"]
    /\ UNCHANGED <<dataVars, cacheVars, keptVars, tunnelVars>>

ModNext ==
    \/ StartTempbanTask
    \/ CogLoadBegin
    \/ CogLoadEnd
    \/ CogUnload
    \/ \E t \in TaskIds :
        \/ TaskStart(t)
        \/ \E how \in Ends : CheckEnds(t, how)
        \/ SleepEnds(t)
        \/ Cancelled(t)

ModSpec == Init /\ [][ModNext]_vars

\* Scheduling: the event loop runs every task that can run, a sleep ends,
\* and a check ends (in some way).  Nothing makes the cog's methods be
\* called.
TaskProgress(t) ==
    \/ TaskStart(t)
    \/ \E how \in Ends : CheckEnds(t, how)
    \/ SleepEnds(t)
    \/ Cancelled(t)

\* the task's loop, with the calls that make and cancel tasks
LoopNext ==
    \/ StartTempbanTask
    \/ CogUnload
    \/ \E t \in TaskIds :
        \/ TaskStart(t)
        \/ \E how \in Ends : CheckEnds(t, how)
        \/ SleepEnds(t)
        \/ Cancelled(t)

LoopSpec ==
    Init /\ [][LoopNext]_vars /\ \A t \in TaskIds : WF_vars(TaskProgress(t))

(***************************************************************************)
(* Tunnel(sender=..., origin=..., recipient=...), which TunnelMeta.__call__ *)
(* answers, and the freeing of a Tunnel nobody refers to any more, which   *)
(* takes its entry out of the weak dictionary.                             *)
(***************************************************************************)
\* the lockout tuples that have a live Tunnel
Live(inst) == {k \in LockoutTuples : inst[k] # NoTunnel}

\* any(lockout_tuple[0] == x[0] ...) or any(lockout_tuple[1] == x[1] ...)
shares_never(inst, lockout_tuple) == FALSE
shares(inst, lockout_tuple) ==
    \/ \E x \in Live(inst) : lockout_tuple[1] = x[1]
    \/ \E x \in Live(inst) : lockout_tuple[2] = x[2]

\* Tunnel.__init__ run at time: a Tunnel not seen before
Tunnel(time) == [id |-> time, last_interaction |-> time]

\* TunnelMeta.__call__: the dictionary afterwards, what happened and what
\* is returned
TunnelMeta_call_reinit(inst, lockout_tuple, time) ==
    IF lockout_tuple \in Live(inst)
    THEN [instances |-> [inst EXCEPT ![lockout_tuple].last_interaction = time],
          result |-> "existing",
          returned |-> [inst[lockout_tuple] EXCEPT !.last_interaction = time]]
    ELSE IF ~shares(inst, lockout_tuple)
    THEN [instances |-> [inst EXCEPT ![lockout_tuple] = Tunnel(time)],
          result |-> "created", returned |-> Tunnel(time)]
    ELSE [instances |-> inst, result |-> "None", returned |-> NoTunnel]
TunnelMeta_call(inst, lockout_tuple, time) ==
    IF lockout_tuple \in Live(inst)
    THEN [instances |-> inst, result |-> "existing",
          returned |-> inst[lockout_tuple]]
    ELSE IF ~shares(inst, lockout_tuple)
    THEN [instances |-> [inst EXCEPT ![lockout_tuple] = Tunnel(time)],
          result |-> "created", returned |-> Tunnel(time)]
    ELSE [instances |-> inst, result |-> "None", returned |-> NoTunnel]

TunnelCall(sender, origin, recipient) ==
    /\ now < MaxClock
    /\ now' = now + 1
    /\ LET lockout_tuple == <<<<sender, origin>>, recipient>>
           r == TunnelMeta_call(instances, lockout_tuple, now + 1)
       IN /\ instances' = r.instances
          /\ made' = [lockout_tuple |-> lockout_tuple, result |-> r.result,
                      returned |-> r.returned, before |-> instances]
    /\ UNCHANGED <<dataVars, cacheVars, keptVars, mod>>

\* the last reference to the Tunnel under k is dropped
Forget(k) ==
    /\ k \in Live(instances)
    /\ instances' = [instances EXCEPT ![k] = NoTunnel]
    /\ UNCHANGED <<made, now, dataVars, cacheVars, keptVars, mod>>

TunnelNext ==
    \/ \E sender \in Senders, origin \in Origins, recipient \in Recipients :
           TunnelCall(sender, origin, recipient)
    \/ \E k \in LockoutTuples : Forget(k)

TunnelSpec == Init /\ [][TunnelNext]_vars

(***************************************************************************)
(* The calls from outside alone, on a store that has some values and under *)
(* one of two schemas: the guild schema, or the schema                     *)
(* {threshold: 5, flags: {a: true, b: false}} (true and false are written  *)
(* 1 and 0).                                                               *)
(***************************************************************************)
ExampleDefaults ==
    DictV(K("threshold") :> IntV(5)
          @@ K("flags") :> DictV(K("a") :> IntV(1) @@ K("b") :> IntV(0)))

ExampleStored ==
    DictV(K("flags") :> DictV(K("b") :> IntV(1) @@ K("c") :> IntV(1)))

RegisteredSchemas == {GuildDefaults, ExampleDefaults}

\* a dict with an int key, and a list that holds one
IntKeyed == DictV(IK("1") :> IntV(0))
ListOfIntKeyed == ListV(<<IntKeyed>>)

\* mappings a caller stores at the root: a part of the schema's keys, a
\* nested mapping with a key the schema lacks, a scalar where the schema has
\* a mapping next to a key the schema lacks, a mapping where the schema has
\* a scalar
Mappings ==
    {DictV(K("default_days") :> IntV(7)),
     DictV(K("mention_spam") :> DictV(K("extra") :> IntV(1))),
     DictV(K("mention_spam") :> IntV(5) @@ K("unknown") :> IntV(1)),
     DictV(K("default_days") :> DictV(K("x") :> IntV(1))),
     ExampleStored,
     IntKeyed}

\* the values a caller passes to set at address a
SetValues(a) ==
    IF a = Root THEN Mappings \cup {IntV(7)}
    ELSE {IntV(7), ListV(<<IntV(9)>>), ListOfIntKeyed}

\* the values a caller passes to set_raw
RawValues == {IntV(7), IntKeyed}

\* the `default` a caller passes to _get at address a
Overrides(a) ==
    {Ellipsis, Override(IntV(3)),
     Override(IF a = Root THEN DictV(K("other") :> IntV(1)) ELSE ListV(<<IntV(4)>>))}

\* what the driver may hold at address a at the start
InitialStored(a) ==
    {NotFound} \cup
    (CASE a = Root -> {Found(ExampleStored)}
       [] a = Tempbans -> {Found(ListV(<<IntV(9)>>))}
       [] OTHER -> {Found(IntV(7))})

AccessInit ==
    /\ store \in {st \in [Addrs -> UNION {InitialStored(a) : a \in Addrs}] :
                    \A a \in Addrs : st[a] \in InitialStored(a)}
    /\ defaults \in RegisteredSchemas
    /\ lock_cache = [a \in Addrs |-> NoLock]
    /\ sec = [s \in Sections |-> IdleSection]
    /\ faults = 0
    /\ op = NoOp
    /\ CacheInit
    /\ KeptInit
    /\ CogInit

AccessNext ==
    \E a \in Addrs :
        \/ \E override \in Overrides(a) : Get(a, override, TRUE)
        \/ \E value \in SetValues(a) : Set(a, value, TRUE)
        \/ Clear(a, TRUE)
        \/ \E value \in RawValues : SetRaw(a, value, TRUE)

AccessSpec == AccessInit /\ [][AccessNext]_vars

(***************************************************************************)
(* A caller that keeps an accessor (acc = config.guild(g).<...>) and calls *)
(* it more than once.  The root Group gets a deep copy of the registered   *)
(* defaults when it is made, so held starts equal to a fresh accessor; but *)
(* the default of a Value, and the _defaults of a Group, are objects, and  *)
(* a value that is one of these objects changes them when it is mutated.   *)
(***************************************************************************)
\* acc = config.guild(g).<a>
Keep(a) ==
    /\ ~held.kept
    /\ LET acc == AccessorAt(a)
       IN held' = [NoAccessor EXCEPT !.kept = TRUE,
                                     !.is_group = acc.is_group,
                                     !.identifier_data = acc.identifier_data,
                                     !.default = acc.default,
                                     !.defaults = acc.defaults,
                                     !.force_registration = acc.force_registration]
    /\ UNCHANGED <<got, child, dataVars, cacheVars, cogVars>>

\* is what Value._get returns the object self.default: yes when the driver
\* has nothing (`return ... self.default`); Group._get passes a deep copy
\* (self.defaults) down instead
returns_default(acc, st) ==
    IF ~acc.is_group /\ ~driver_get(st, acc.identifier_data).found
    THEN "default" ELSE "none"

\* v = await acc._get() on the kept accessor
HeldGet ==
    /\ held.kept
    /\ got' = [NoValue EXCEPT !.returned = TRUE,
                              !.val = get_with(held, store, Ellipsis),
                              !.alias = returns_default(held, store),
                              !.muts = got.muts]
    /\ UNCHANGED <<held, child, dataVars, cacheVars, cogVars>>

\* v = await acc.<item>._get() on the kept Group: Group.__getattr__ makes a
\* Value whose default is the object self._defaults[item]
HeldChildGet(item) ==
    /\ held.kept /\ held.is_group
    /\ LET value == getattr(held, item)
       IN got' = [NoValue EXCEPT
                    !.returned = TRUE,
                    !.val = get_with(value, store, Ellipsis),
                    !.item = item,
                    !.muts = got.muts,
                    !.alias = IF returns_default(value, store) = "default"
                              THEN "child" ELSE "none"]
    /\ UNCHANGED <<held, child, dataVars, cacheVars, cogVars>>

\* v.append(1) or v["1"] = 1 on the returned value
MutateGot ==
    /\ got.returned /\ IsContainer(got.val)
    /\ got.muts < MaxMutations
    /\ LET new == IF IsList(got.val) THEN ListAppend(got.val, IntV(1))
                  ELSE DictSet(got.val, K("1"), IntV(1))
       IN /\ got' = [got EXCEPT !.val = new, !.muts = @ + 1]
          /\ held' = CASE got.alias = "default" -> [held EXCEPT !.default = new]
                       [] got.alias = "child" ->
                            [held EXCEPT !.defaults = DictSet(@, K(got.item), new)]
                       [] OTHER -> held
    /\ UNCHANGED <<child, dataVars, cacheVars, cogVars>>

\* the children of the root Group a caller reads
Items == {"current_tempbans", "default_days"}

KeptNext ==
    \/ \E a \in Addrs :
        \/ Keep(a)
        \/ Set(a, PlainValue(a), TRUE)
        \/ Clear(a, TRUE)
    \/ HeldGet
    \/ \E item \in Items : HeldChildGet(item)
    \/ MutateGot

KeptSpec == Init /\ [][KeptNext]_vars

(***************************************************************************)
(* Requests for a Config.  A client is a place that holds one reference    *)
(* (a cog's self.config); it asks for a Config when it holds none.         *)
(***************************************************************************)
\* `key in _config_cache`
in_cache_never(cache, key) == FALSE
in_cache(cache, key) == cache[key] # NoObject

\* the identity a newly constructed object gets
NewId == CHOOSE i \in ObjectIds : ~configs[i].alive

\* ConfigMeta.__call__ for client c; req is the record of the request as
\* far as its caller has filled it in
MetaCall(c, cog_name, unique_identifier, driver, force_registration, req) ==
    LET key == <<cog_name, unique_identifier>>
        asked == [req EXCEPT !.client = c, !.key = key, !.driver = driver,
                             !.force_registration = force_registration,
                             !.existed = config_cache[key]]
    IN IF cog_name = "None"
       THEN /\ request' = [asked EXCEPT !.exc = "ValueError"]
            /\ UNCHANGED <<config_cache, configs, refs, retrieved, latest>>
       ELSE IF in_cache(config_cache, key)
       THEN /\ request' = [asked EXCEPT !.returned = config_cache[key]]
            /\ refs' = [refs EXCEPT ![c] = config_cache[key]]
            /\ UNCHANGED <<config_cache, configs, retrieved, latest>>
       ELSE /\ request' = [asked EXCEPT !.returned = NewId]
            /\ latest' = [latest EXCEPT !.unseen = @ \cup {NewId}]
            /\ UNCHANGED retrieved
            /\ configs' = [configs EXCEPT ![NewId] =
                             Config(cog_name, unique_identifier, driver,
                                    force_registration, <<>>)]
            /\ config_cache' = [config_cache EXCEPT ![key] = NewId]
            /\ refs' = [refs EXCEPT ![c] = NewId]

\* Config(cog_name, unique_identifier, driver, force_registration)
ConfigCall(c, cog_name, unique_identifier, driver, force_registration) ==
    /\ refs[c] = NoObject
    /\ MetaCall(c, cog_name, unique_identifier, driver, force_registration,
                [NoRequest EXCEPT !.via = "Config"])
    /\ UNCHANGED <<dataVars, keptVars, cogVars>>

\* the driver get_driver resolves for an owner: one of the drivers
get_driver(cog_name, unique_identifier) == Drivers

\* Config.get_conf: the driver is resolved and, when it can, migrates the
\* identifier; then cls(...) is called
get_conf(c, cog_name, unique_identifier, force_registration) ==
    /\ refs[c] = NoObject
    /\ \E driver \in get_driver(cog_name, unique_identifier) :
          MetaCall(c, cog_name, unique_identifier, driver, force_registration,
                   [NoRequest EXCEPT !.via = "get_conf", !.resolved = TRUE,
                                     !.migrated = driver \in Migrating])
    /\ UNCHANGED <<dataVars, keptVars, cogVars>>

\* config.register_guild(...) or config.register_member(...) through the
\* reference client c holds: the schema is merged into the defaults the
\* Config has for the category
Register(c, category) ==
    /\ refs[c] # NoObject
    /\ configs' = [configs EXCEPT ![refs[c]].defaults =
                     (category :> SchemaOf(category)) @@ @]
    /\ UNCHANGED <<config_cache, refs, request, retrieved, latest,
                   dataVars, keptVars, cogVars>>

\* client c lets go of its reference; a Config nobody refers to is freed
\* and leaves the weak cache and the weak set _retrieved
Release(c) ==
    /\ refs[c] # NoObject
    /\ LET i == refs[c]
           key == <<configs[i].cog_name, configs[i].unique_identifier>>
           freed == \A d \in Clients \ {c} : refs[d] # i
       IN /\ refs' = [refs EXCEPT ![c] = NoObject]
          /\ configs' = IF freed THEN [configs EXCEPT ![i] = NoConfig] ELSE configs
          /\ config_cache' = IF freed /\ config_cache[key] = i
                             THEN [config_cache EXCEPT ![key] = NoObject]
                             ELSE config_cache
          /\ retrieved' = IF freed THEN retrieved \ {i} ELSE retrieved
          /\ latest' = IF freed THEN [latest EXCEPT !.unseen = @ \ {i}]
                        ELSE latest
    /\ UNCHANGED <<request, dataVars, keptVars, cogVars>>

\* set(_config_cache.values()) - set(_retrieved)
new_configs_all(cache, seen) == {cache[key] : key \in CacheKeys} \ {NoObject}
new_configs(cache, seen) ==
    ({cache[key] : key \in CacheKeys} \ {NoObject}) \ seen

\* get_latest_confs()
get_latest_confs ==
    /\ retrieved' = retrieved \cup new_configs(config_cache, retrieved)
    /\ latest' = [called |-> TRUE,
                  returned |-> new_configs(config_cache, retrieved),
                  unseen |-> {}]
    /\ UNCHANGED <<config_cache, configs, refs, request, dataVars, keptVars, cogVars>>

(***************************************************************************)
(* Requests for a Config with calls of get_latest_confs in between.  The   *)
(* clients ask by the constructor, for the Mod cog or the core.            *)
(***************************************************************************)
LatestNext ==
    \/ \E c \in Clients :
        \/ \E cog_name \in {"Mod", "Core"}, uid \in Identifiers :
               ConfigCall(c, cog_name, uid, "d1", FALSE)
        \/ Release(c)
    \/ get_latest_confs

LatestSpec == Init /\ [][LatestNext]_vars

StoreNext ==
    \E c \in Clients :
        \/ \E cog_name \in CogNames, uid \in Identifiers,
              driver \in Drivers, force \in BOOLEAN :
               ConfigCall(c, cog_name, uid, driver, force)
        \/ \E cog_name \in CogNames \ {"None"}, uid \in Identifiers,
              force \in BOOLEAN :
               get_conf(c, cog_name, uid, force)
        \/ \E category \in Schemas : Register(c, category)
        \/ Release(c)

StoreSpec == Init /\ [][StoreNext]_vars

(***************************************************************************)
(* Reaching accessors.  A client that holds a Config asks it for the root  *)
(* Group of a category (config.guild(g) and the like, which call           *)
(* _get_base_group), keeps the Group, resolves keys on it (group.<item>)   *)
(* and may go on from a child Group.  The Config was made with or without  *)
(* force_registration and has defaults registered for none, one or two     *)
(* categories.                                                             *)
(***************************************************************************)
\* the accessor acc, kept
Kept(acc) ==
    [kept |-> TRUE, is_group |-> acc.is_group,
     identifier_data |-> acc.identifier_data, default |-> acc.default,
     defaults |-> acc.defaults, force_registration |-> acc.force_registration,
     exc |-> acc.exc]

\* group = config._get_base_group(category, *primary_keys) by client c
BaseGroup(c, category, primary_keys) ==
    /\ refs[c] # NoObject
    /\ LET acc == get_base_group(configs[refs[c]], category, primary_keys)
       IN /\ child' = [NoChild EXCEPT !.via = "base", !.client = c,
                                      !.category = category,
                                      !.primary_keys = primary_keys,
                                      !.acc = acc]
          /\ held' = IF acc.exc = "none" THEN Kept(acc) ELSE held
    /\ UNCHANGED <<got, dataVars, cacheVars, cogVars>>

\* group.<item> on the kept Group
Resolve(item) ==
    /\ held.kept /\ held.is_group
    /\ child' = [NoChild EXCEPT !.via = "getattr", !.item = item,
                                !.acc = getattr(held, item)]
    /\ UNCHANGED <<held, got, dataVars, cacheVars, cogVars>>

\* group = group.<item>: the caller goes on from the child Group
Descend ==
    /\ child.via = "getattr" /\ child.acc.exc = "none" /\ child.acc.is_group
    /\ held' = Kept(child.acc)
    /\ child' = NoChild
    /\ UNCHANGED <<got, dataVars, cacheVars, cogVars>>

\* the defaults a Config may have registered
RegisteredDefaults ==
    {<<>>} \cup {[c \in S |-> SchemaOf(c)] : S \in {{"GUILD"}, {"GUILD", "MEMBER"}}}

ResolveCategories == {"GLOBAL", "GUILD", "MEMBER"}
PrimaryKeys == {<<>>, <<"g">>, <<"g", "m">>, <<"g", "m", "x">>}
ResolveItems == {"current_tempbans", "mention_spam", "strict", "unknown"}

ResolveInit ==
    /\ store = [a \in Addrs |-> NotFound]
    /\ lock_cache = [a \in Addrs |-> NoLock]
    /\ sec = [s \in Sections |-> IdleSection]
    /\ faults = 0
    /\ defaults = GuildDefaults
    /\ op = NoOp
    /\ KeptInit
    /\ CogInit
    /\ request = NoRequest
    /\ retrieved = {}
    /\ latest = [NoLatest EXCEPT !.unseen = {1}]
    /\ refs = [c \in Clients |-> IF c = 1 THEN 1 ELSE NoObject]
    /\ config_cache = [key \in CacheKeys |->
                         IF key = <<"Mod", "4961522000">> THEN 1 ELSE NoObject]
    /\ \E force_registration \in BOOLEAN, defs \in RegisteredDefaults :
          configs = [i \in ObjectIds |->
                       IF i = 1
                       THEN Config("Mod", "4961522000", "d1",
                                   force_registration, defs)
                       ELSE NoConfig]

ResolveNext ==
    \/ \E c \in Clients, category \in ResolveCategories,
          primary_keys \in PrimaryKeys :
           BaseGroup(c, category, primary_keys)
    \/ \E item \in ResolveItems : Resolve(item)
    \/ Descend

ResolveSpec == ResolveInit /\ [][ResolveNext]_vars

(***************************************************************************)
(* Vocabulary of the properties.                                           *)
(***************************************************************************)
Started(s) == sec[s].pc # "idle"
Exclusive(s) == Started(s) /\ sec[s].acquire_lock
OptOut(s) == Started(s) /\ ~sec[s].acquire_lock
\* between the initial driver read of __aenter__ and the end of __aexit__
InFlight(s) == sec[s].pc \in {"reading", "body", "writing"}
Ended(s) == sec[s].pc \in {"done", "failed", "gone"}
\* __aexit__ returned without raising and the body had not raised
ExitedNormally(s) == sec[s].pc = "done" /\ sec[s].exc = "none"
SetCalled(s) == \E i \in 1..Len(sec[s].calls) : sec[s].calls[i] = "set"
HoldsLock(s) == Started(s) /\ lock_cache[LockOf(s)].holder = s

\* v has the element that section s adds at the top level
Has(v, s) ==
    \/ IsList(v) /\ \E i \in 1..Len(v.items) : v.items[i] = IntV(s)
    \/ IsDict(v) /\ K(ToString(s)) \in DOMAIN v.ents

(***************************************************************************)
(* C1.  At most one exclusive section per exact address is in flight at a  *)
(* time, in flight meaning from its initial driver read to the end of its  *)
(* __aexit__.                                                              *)
(***************************************************************************)
C1_MutualExclusion ==
    \A s1, s2 \in Sections :
        (/\ s1 # s2
         /\ Exclusive(s1) /\ Exclusive(s2)
         /\ sec[s1].addr = sec[s2].addr
         /\ InFlight(s1))
        => ~InFlight(s2)

\* an exclusive section is in its body while another one, on the same
\* address, queues for the lock
C1_Witness ==
    \E s1, s2 \in Sections :
        /\ s1 # s2
        /\ Exclusive(s1) /\ Exclusive(s2)
        /\ sec[s1].addr = sec[s2].addr
        /\ sec[s1].pc = "body"
        /\ sec[s2].pc = "waiting"

(***************************************************************************)
(* C2.  No lost update between exclusive sections on one address: when two *)
(* of them each added their own element to the working copy and exited     *)
(* normally, one of them read the other's write, and the stored value has  *)
(* both elements.  (Writers that opted out of the lock are not serialized, *)
(* so the statement is about addresses no opted-out section works on; the  *)
(* elements are added at the top level of the working copy.)               *)
(***************************************************************************)
CommittedAdd(s) ==
    Exclusive(s) /\ ExitedNormally(s) /\ sec[s].top_added

C2_NoLostUpdate ==
    \A s1, s2 \in Sections :
        (/\ s1 # s2
         /\ CommittedAdd(s1) /\ CommittedAdd(s2)
         /\ sec[s1].addr = sec[s2].addr
         /\ ~\E w \in Sections : OptOut(w) /\ sec[w].addr = sec[s1].addr)
        => /\ Has(sec[s1].seen, s2) \/ Has(sec[s2].seen, s1)
           /\ Has(store[sec[s1].addr].val, s1)
           /\ Has(store[sec[s1].addr].val, s2)

\* two exclusive sections overlapped (the second had to queue), both added
\* an element and both exited normally
C2_Witness ==
    \E s1, s2 \in Sections :
        /\ s1 # s2
        /\ CommittedAdd(s1) /\ CommittedAdd(s2)
        /\ sec[s1].addr = sec[s2].addr
        /\ sec[s2].waited
        /\ Has(sec[s2].seen, s1)

(***************************************************************************)
(* C3.  After an exclusive section ends by any exit path (normal exit, the *)
(* body raising, a scalar making acquisition fail, the driver read         *)
(* failing, the driver write failing) that section no longer holds the     *)
(* lock of its address.                                                    *)
(***************************************************************************)
C3_ReleasedOnEveryExit ==
    \A s \in Sections : (Exclusive(s) /\ Ended(s)) => ~HoldsLock(s)

(***************************************************************************)
(* C4.  When the task of an exclusive section is cancelled after the lock  *)
(* was acquired and before the write-back, the lock is released and no     *)
(* driver set call is made for that section.                               *)
(***************************************************************************)
C4_CancelReleasesAndSkipsWrite ==
    \A s \in Sections :
        (Exclusive(s) /\ sec[s].cancel_at \in {"reading", "body"})
        => /\ ~SetCalled(s)
           /\ Ended(s) => ~HoldsLock(s)

\* the two parts of C4 each on the path it is about: cancelled in the body
\* (where __aexit__ runs), the lock is released; cancelled anywhere before
\* the write-back, no set is called
C4_BodyCancelReleases ==
    \A s \in Sections :
        (Exclusive(s) /\ sec[s].cancel_at = "body" /\ Ended(s)) => ~HoldsLock(s)

C4_CancelSkipsWrite ==
    \A s \in Sections :
        (Exclusive(s) /\ sec[s].cancel_at \in {"reading", "body"}) => ~SetCalled(s)

(***************************************************************************)
(* C5.  Under fair scheduling, every exclusive section that queues for the *)
(* lock of its address eventually acquires it (unless its own task is      *)
(* cancelled while it queues), whatever happened to earlier sections.      *)
(***************************************************************************)
C5_EventuallyAcquires ==
    \A s \in Sections :
        (sec[s].pc = "waiting")
            ~> (sec[s].acquired \/ sec[s].cancel_at = "waiting")

(***************************************************************************)
(* C6.  When a section exits normally, Driver.set was called for it if and *)
(* only if the working copy differs from the value read at acquisition, at *)
(* whatever depth the change is; and right after the exit a get at that    *)
(* address returns the mutated value.                                      *)
(***************************************************************************)
ExitsNow(s) == sec[s].pc \in {"body", "writing"} /\ sec'[s].pc = "done"

C6_WriteIffChanged ==
    [][\A s \in Sections :
         (ExitsNow(s) /\ sec'[s].exc = "none")
         => /\ SetCalled(s)' <=> (sec[s].raw_value # sec[s].seen)
            /\ (sec[s].raw_value # sec[s].seen)
               => get(AccessorAt(sec[s].addr), store') = sec[s].raw_value]_vars

(***************************************************************************)
(* C7.  A section that mutates nothing makes no driver set call, whether a *)
(* value is stored at its address or only the default applies.             *)
(***************************************************************************)
C7_NoWriteWithoutMutation ==
    \A s \in Sections : sec[s].muts = 0 => ~SetCalled(s)

\* a section found a stored value, mutated nothing and exited
C7_Witness ==
    \E s \in Sections :
        /\ ExitedNormally(s)
        /\ sec[s].seen_found
        /\ sec[s].muts = 0

(***************************************************************************)
(* C8.  A section on an address whose effective value is neither a list    *)
(* nor a dict fails with TypeError as soon as the value is read: its body  *)
(* never runs and the driver's get is the only driver call it makes.       *)
(***************************************************************************)
C8_ScalarFailsAtOnce ==
    \A s \in Sections :
        /\ (sec[s].did_read /\ ~IsContainer(sec[s].seen))
           => /\ sec[s].pc \in {"failed", "gone"}
              /\ sec[s].exc = "TypeError"
              /\ ~sec[s].entered
              /\ sec[s].muts = 0
              /\ sec[s].calls = <<"get">>
        /\ sec[s].exc = "TypeError" => ~IsContainer(sec[s].seen)

\* a section read a scalar and failed
C8_Witness ==
    \E s \in Sections :
        /\ sec[s].did_read
        /\ sec[s].seen = IntV(0)
        /\ sec[s].exc = "TypeError"

(***************************************************************************)
(* C9.  A section opened with acquire_lock=False never queues for, takes   *)
(* or releases the lock of its address, and on a normal exit a working     *)
(* copy that differs from the value read has been written back.            *)
(***************************************************************************)
C9_LockUntouched ==
    \A s \in Sections :
        OptOut(s)
        => /\ sec[s].pc # "waiting"
           /\ ~sec[s].acquired
           /\ ~sec[s].waited
           /\ ~HoldsLock(s)
           /\ \A i \in 1..Len(lock_cache[LockOf(s)].waiters) :
                  lock_cache[LockOf(s)].waiters[i] # s

C9_WritesBackChange ==
    \A s \in Sections :
        (OptOut(s) /\ ExitedNormally(s) /\ sec[s].raw_value # sec[s].seen)
        => sec[s].wrote

C9_OptOut == C9_LockUntouched /\ C9_WritesBackChange

\* an opted-out section is in its body while an exclusive section on the
\* same address holds the lock
C9_EntersWhileLocked ==
    \E s1, s2 \in Sections :
        /\ OptOut(s1) /\ Exclusive(s2)
        /\ sec[s1].addr = sec[s2].addr
        /\ sec[s1].pc = "body"
        /\ sec[s2].pc = "body" /\ HoldsLock(s2)

(***************************************************************************)
(* C10.  An exclusive section never waits because of a section on another  *)
(* address, a parent or a child included: whenever it queues, an           *)
(* exclusive section on the very same address holds the lock or is ahead   *)
(* of it in the queue with the lock handed over.                           *)
(***************************************************************************)
Ahead(w, s) ==
    LET q == lock_cache[LockOf(s)].waiters
    IN \E i, j \in 1..Len(q) : i < j /\ q[i] = w /\ q[j] = s

C10_NarrowLocking ==
    \A s \in Sections :
        (sec[s].pc = "waiting" /\ ~sec[s].fut_done)
        => \E w \in Sections \ {s} :
              /\ Exclusive(w)
              /\ sec[w].addr = sec[s].addr
              /\ \/ lock_cache[LockOf(s)].holder = w
                 \/ Ahead(w, s) /\ sec[w].fut_done

\* exclusive sections on the root and on its child are in their bodies at
\* the same time
C10_Witness ==
    \E s1, s2 \in Sections :
        /\ Exclusive(s1) /\ Exclusive(s2)
        /\ sec[s1].addr = Root /\ sec[s2].addr = Tempbans
        /\ sec[s1].pc = "body" /\ sec[s2].pc = "body"

(***************************************************************************)
(* C11.  A _get, set or clear made outside a section on address A never    *)
(* waits for the lock of A: whatever the state of the lock, also while an  *)
(* exclusive section on A holds it, the call can run to its end.  (So a    *)
(* set made during a section can be overwritten by the section's           *)
(* write-back: C11_Overwritten is such a state.)                           *)
(***************************************************************************)
C11_PlainNeverWaits ==
    \A a \in Addrs :
        op.n < MaxCalls
        => /\ ENABLED Get(a, Ellipsis, TRUE)
           /\ ENABLED Set(a, PlainValue(a), TRUE)
           /\ ENABLED Clear(a, TRUE)

\* a set was made on the address of an exclusive section while the section
\* held the lock; the section then wrote its working copy back and exited
\* normally, and the value set from outside is gone
C11_Overwritten ==
    \E s \in Sections :
        /\ op.kind = "set" /\ op.exc = "none"
        /\ op.during = s /\ op.addr = sec[s].addr
        /\ Exclusive(s) /\ ExitedNormally(s) /\ sec[s].wrote
        /\ store[op.addr] = Found(set_value(sec[s].raw_value))
        /\ store[op.addr] # Found(op.handed)

(***************************************************************************)
(* C12.  At most one live Config exists per (cog_name, unique_identifier): *)
(* a request for a key whose Config is alive returns that very object, so  *)
(* all references for one key are to one object and a schema registered    *)
(* through one of them is seen through every other.                        *)
(***************************************************************************)
KeyOf(i) == <<configs[i].cog_name, configs[i].unique_identifier>>

C12_OneLiveStorePerKey ==
    /\ \A i, j \in ObjectIds :
          (configs[i].alive /\ configs[j].alive /\ KeyOf(i) = KeyOf(j)) => i = j
    /\ \A c \in Clients :
          refs[c] # NoObject
          => configs[refs[c]].alive /\ config_cache[KeyOf(refs[c])] = refs[c]
    /\ \A c1, c2 \in Clients :
          (/\ refs[c1] # NoObject /\ refs[c2] # NoObject
           /\ KeyOf(refs[c1]) = KeyOf(refs[c2]))
          => /\ refs[c1] = refs[c2]
             /\ configs[refs[c1]].defaults = configs[refs[c2]].defaults
    /\ (request.exc = "none" /\ request.existed # NoObject)
          => request.returned = request.existed

\* two clients hold the one Config of a key, the second got it from a
\* request that found it alive, and a schema has been registered
C12_Witness ==
    /\ refs[1] # NoObject /\ refs[1] = refs[2]
    /\ request.existed = refs[1] /\ request.returned = refs[1]
    /\ "GUILD" \in DOMAIN configs[refs[1]].defaults

(***************************************************************************)
(* C13.  A request for a key that has a live Config returns that Config    *)
(* and runs no construction side effect: the Config's driver,              *)
(* force_registration, defaults, custom groups and lock registry stay as   *)
(* they are whatever driver or force_registration the request passes, and  *)
(* no driver is resolved and no identifier migrated for the request.       *)
(***************************************************************************)
\* this step is a request of client c that returned a Config
Acquires(c) == refs[c] = NoObject /\ refs'[c] # NoObject

C13_NoSideEffects ==
    [][\A c \in Clients :
         (Acquires(c) /\ request'.existed # NoObject)
         => /\ refs'[c] = request'.existed
            /\ configs' = configs
            /\ config_cache' = config_cache
            /\ ~request'.resolved
            /\ ~request'.migrated]_vars

\* the part of C13 about the existing Config alone
C13_ExistingUnchanged ==
    [][\A c \in Clients :
         (Acquires(c) /\ request'.existed # NoObject)
         => /\ refs'[c] = request'.existed
            /\ configs' = configs
            /\ config_cache' = config_cache]_vars

\* a request that passed another driver and another force_registration
\* than the live Config of its key has
C13_DifferentArguments ==
    /\ request.existed # NoObject
    /\ request.returned = request.existed
    /\ configs[request.returned].alive
    /\ configs[request.returned].driver # request.driver
    /\ configs[request.returned].force_registration # request.force_registration

(***************************************************************************)
(* Vocabulary of the claims about _get, set, clear and set_raw.            *)
(***************************************************************************)
\* the default the registered schema gives address a
DefaultAt(a) ==
    IF a = Root THEN defaults
    ELSE IF K(a.identifiers[1]) \in DOMAIN defaults.ents
         THEN defaults.ents[K(a.identifiers[1])]
    ELSE NoneV

\* merge(D, S): keys only in D take the default, keys in both whose two
\* values are mappings are merged, every other key of S takes the stored
\* value
RECURSIVE merge(_, _)
merge(D, S) ==
    LET both == (DOMAIN D.ents) \cap (DOMAIN S.ents)
    IN DictV([k \in (DOMAIN D.ents) \cup (DOMAIN S.ents) |->
                IF k \notin DOMAIN S.ents THEN D.ents[k]
                ELSE IF k \in both /\ IsDict(D.ents[k]) /\ IsDict(S.ents[k])
                     THEN merge(D.ents[k], S.ents[k])
                     ELSE S.ents[k]])

\* only string keys, at every depth, lists looked into
RECURSIVE StrKeyed(_)
StrKeyed(v) ==
    /\ IsDict(v) => \A k \in DOMAIN v.ents : k.t = "str" /\ StrKeyed(v.ents[k])
    /\ IsList(v) => \A i \in 1..Len(v.items) : StrKeyed(v.items[i])

\* this step is a call from outside a section
CallMade == op'.n = op.n + 1

(***************************************************************************)
(* C14.  _get never raises the driver's not-found error: with nothing      *)
(* stored at the address it returns the default the caller passed, or the  *)
(* registered default when the caller passed none; a stored scalar is      *)
(* returned as it is.                                                      *)
(***************************************************************************)
C14_GetNeverNotFound ==
    op.kind = "get"
    => /\ op.exc = "none"
       /\ ~op.found
          => op.result = (IF op.override.given THEN op.override.val
                          ELSE DefaultAt(op.addr))
       /\ (op.found /\ ~IsContainer(op.before)) => op.result = op.before

\* a _get on the root Group with nothing stored returned the caller's
\* mapping
C14_Witness ==
    /\ op.kind = "get" /\ op.addr = Root /\ ~op.found
    /\ op.override.given /\ IsDict(op.override.val)
    /\ op.result = op.override.val
    /\ op.result # DefaultAt(Root)

(***************************************************************************)
(* C15.  _get on a Group that has a mapping S stored, the registered       *)
(* defaults being D, returns merge(D, S).                                  *)
(***************************************************************************)
C15_GroupGetMerges ==
    (/\ op.kind = "get" /\ op.addr = Root /\ ~op.override.given
     /\ op.found /\ IsDict(op.before))
    => op.result = merge(DefaultAt(Root), op.before)

\* the example: defaults {threshold: 5, flags: {a: true, b: false}}, stored
\* {flags: {b: true, c: 1}}, returned
\* {threshold: 5, flags: {a: true, b: true, c: 1}}
C15_Witness ==
    /\ op.kind = "get" /\ op.addr = Root /\ ~op.override.given
    /\ defaults = ExampleDefaults
    /\ op.found /\ op.before = ExampleStored
    /\ op.result =
         DictV(K("threshold") :> IntV(5)
               @@ K("flags") :> DictV(K("a") :> IntV(1) @@ K("b") :> IntV(1)
                                      @@ K("c") :> IntV(1)))

(***************************************************************************)
(* C16.  Round trip: set(A, V) and then _get(A), nothing written in        *)
(* between, returns merge(defaults(A), V) for a mapping V and V itself for *)
(* a scalar or a list, V being JSON (string keys) and of the shape the     *)
(* schema has at A.                                                        *)
(***************************************************************************)
Consistent(a, V) ==
    IF a = Root THEN IsDict(V)
    ELSE /\ ~IsDict(V)
         /\ DefaultAt(a) # NoneV => (IsList(V) <=> IsList(DefaultAt(a)))

C16_RoundTrip ==
    [][(/\ op.kind = "set" /\ op.exc = "none"
        /\ StrKeyed(op.arg) /\ Consistent(op.addr, op.arg)
        /\ CallMade /\ op'.kind = "get" /\ op'.addr = op.addr
        /\ ~op'.override.given)
       => op'.result = (IF IsDict(op.arg)
                        THEN merge(DefaultAt(op.addr), op.arg)
                        ELSE op.arg)]_vars

\* a mapping other than the one stored at the start was set at the root and
\* read back merged with the defaults
C16_Witness ==
    /\ op.kind = "get" /\ op.addr = Root /\ ~op.override.given /\ op.n = 2
    /\ op.found /\ op.before = DictV(K("default_days") :> IntV(7))
    /\ defaults = GuildDefaults
    /\ op.result = [GuildDefaults EXCEPT !.ents[K("default_days")] = IntV(7)]

(***************************************************************************)
(* C17.  clear(A) removes what is stored at A (and nothing else), so that  *)
(* a _get(A) that follows returns the default; a clear(A) right after a    *)
(* clear(A) raises nothing and changes nothing.                            *)
(***************************************************************************)
C17_ClearIdempotent ==
    [][/\ (CallMade /\ op'.kind = "clear")
          => /\ op'.exc = "none"
             /\ ~store'[op'.addr].found
             /\ \A a \in Addrs \ {op'.addr} : store'[a] = store[a]
             /\ (op.kind = "clear" /\ op.addr = op'.addr) => store' = store
       /\ (op.kind = "clear" /\ CallMade /\ op'.kind = "get"
           /\ op'.addr = op.addr /\ ~op'.override.given)
          => op'.result = DefaultAt(op.addr)]_vars

\* a stored list was cleared and the _get that followed returned the default
C17_Witness ==
    /\ op.kind = "get" /\ op.addr = Tempbans /\ ~op.override.given
    /\ op.prev = [kind |-> "clear", addr |-> Tempbans, found |-> TRUE]
    /\ ~op.found
    /\ defaults = GuildDefaults
    /\ op.result = ListV(<<>>)

\* clear was called a second time
C17_ClearedTwice ==
    /\ op.kind = "clear" /\ ~op.found
    /\ op.prev = [kind |-> "clear", addr |-> op.addr, found |-> TRUE]

(***************************************************************************)
(* C18.  Mutating a value that _get returned for an address with nothing   *)
(* stored never changes the defaults: a later _get at an address with      *)
(* nothing stored returns the registered default, through the accessor the *)
(* caller kept, through a child of it, and through any other accessor.     *)
(***************************************************************************)
C18_FreshAccessorIntact ==
    \A a \in Addrs :
        ~store[a].found => get_with(AccessorAt(a), store, Ellipsis) = DefaultAt(a)

C18_DefaultsIntact ==
    /\ C18_FreshAccessorIntact
    /\ (held.kept /\ ~store[held.identifier_data].found)
       => get_with(held, store, Ellipsis) = DefaultAt(held.identifier_data)
    /\ (held.kept /\ held.is_group)
       => \A item \in Items :
             ~store[get_child(held.identifier_data, item)].found
             => get_with(getattr(held, item), store, Ellipsis)
                  = DefaultAt(get_child(held.identifier_data, item))

(***************************************************************************)
(* C19.  Every mapping handed to Driver.set by Value.set, Group.set or     *)
(* set_raw has only string keys, at every nesting depth.                   *)
(***************************************************************************)
C19_OnlyStringKeys ==
    (op.kind \in {"set", "set_raw"} /\ op.exc = "none") => StrKeyed(op.handed)

\* what Value.set and Group.set do for a dict that holds no list
C19_SetOfDict ==
    (op.kind = "set" /\ op.exc = "none" /\ IsDict(op.arg)) => StrKeyed(op.handed)

\* set was called with a dict that has an int key
C19_IntKeySet ==
    op.kind = "set" /\ op.exc = "none" /\ op.arg = IntKeyed

(***************************************************************************)
(* C20.  A section that leaves its working copy as it read it makes no     *)
(* driver set call, also when the value it read has keys that are not      *)
(* strings: a difference that is key normalisation alone writes nothing.   *)
(***************************************************************************)
C20_NoWriteForNormalisation ==
    \A s \in Sections :
        (sec[s].did_read /\ ~StrKeyed(sec[s].seen) /\ sec[s].muts = 0)
        => ~SetCalled(s)

\* the same for the values that have string keys only (which C7 is about)
C20_StringKeyedUnwritten ==
    \A s \in Sections :
        (sec[s].did_read /\ StrKeyed(sec[s].seen) /\ sec[s].muts = 0)
        => ~SetCalled(s)

(***************************************************************************)
(* C21.  Group.set with a value that is not a mapping raises ValueError,   *)
(* makes no driver call and leaves what is stored at the address (and      *)
(* everywhere else) as it was.                                             *)
(***************************************************************************)
C21_GroupSetRefusesNonMapping ==
    [][(CallMade /\ op'.kind = "set" /\ AccessorAt(op'.addr).is_group
        /\ ~IsDict(op'.arg))
       => /\ op'.exc = "ValueError"
          /\ op'.calls = <<>>
          /\ store' = store]_vars

\* the root Group, with a mapping stored, was set to a scalar
C21_Witness ==
    /\ op.kind = "set" /\ op.addr = Root /\ op.arg = IntV(7)
    /\ op.exc = "ValueError"
    /\ op.found /\ store[Root] = Found(op.before)

(***************************************************************************)
(* Vocabulary of the claims about reaching accessors.                      *)
(***************************************************************************)
\* this step resolves a key on the kept Group
Resolving == child' # child /\ child'.via = "getattr"

\* this step asks for a root Group
AskingBase == child' # child /\ child'.via = "base"

\* the address one nested identifier below address a
ChildAddress(a, item) ==
    [cog_name |-> a.cog_name, uuid |-> a.uuid, category |-> a.category,
     primary_key |-> a.primary_key,
     identifiers |-> a.identifiers \o <<item>>,
     primary_key_len |-> a.primary_key_len, is_custom |-> a.is_custom,
     exc |-> "none"]

(***************************************************************************)
(* C22.  Resolving a key on a Group gives a Group at the child address     *)
(* with the nested defaults subtree when the key maps to a mapping in the  *)
(* Group's defaults, and a Value at the child address with that default    *)
(* when it maps to something else; the Group resolved on keeps its address *)
(* and its defaults.                                                       *)
(***************************************************************************)
C22_ChildOfRegisteredKey ==
    [][(Resolving /\ K(child'.item) \in DOMAIN held.defaults.ents)
       => LET sub == held.defaults.ents[K(child'.item)]
              acc == child'.acc
          IN /\ acc.exc = "none"
             /\ acc.identifier_data = ChildAddress(held.identifier_data, child'.item)
             /\ acc.is_group = IsDict(sub)
             /\ IsDict(sub) => acc.defaults = sub
             /\ ~IsDict(sub) => acc.default = sub
             /\ held'.identifier_data = held.identifier_data
             /\ held'.defaults = held.defaults]_vars

\* a key that maps to a mapping was resolved on a root Group
C22_Witness ==
    /\ child.via = "getattr" /\ child.item = "mention_spam"
    /\ held.kept /\ held.identifier_data.identifiers = <<>>
    /\ child.acc.is_group
    /\ child.acc.defaults = DictV(K("strict") :> IntV(0))

\* a key that maps to a list was resolved
C22_ValueResolved ==
    /\ child.via = "getattr" /\ child.item = "current_tempbans"
    /\ ~child.acc.is_group /\ child.acc.exc = "none"
    /\ child.acc.default = ListV(<<>>)

(***************************************************************************)
(* C23.  Resolving a key that the Group's defaults do not have raises the  *)
(* not-registered error (AttributeError) when the Group's                  *)
(* force_registration is true, and otherwise gives a Value at the child    *)
(* address whose default is None; a child Group has the force_registration *)
(* of the Group it was resolved on.                                        *)
(***************************************************************************)
C23_UnregisteredKey ==
    [][/\ (Resolving /\ K(child'.item) \notin DOMAIN held.defaults.ents)
          => IF held.force_registration
             THEN child'.acc.exc = "AttributeError"
             ELSE child'.acc =
                    Value(ChildAddress(held.identifier_data, child'.item), NoneV)
       /\ (Resolving /\ child'.acc.exc = "none" /\ child'.acc.is_group)
          => child'.acc.force_registration = held.force_registration]_vars

\* a key not registered was resolved on a child Group that has
\* force_registration from the root Group, and the error was raised
C23_Witness ==
    /\ child.via = "getattr" /\ child.item = "unknown"
    /\ held.kept /\ held.force_registration
    /\ held.identifier_data.identifiers = <<"mention_spam">>
    /\ child.acc.exc = "AttributeError"

\* without force_registration a key not registered gave a Value
C23_AdHocValue ==
    /\ child.via = "getattr" /\ child.item = "unknown"
    /\ held.kept /\ ~held.force_registration
    /\ child.acc.exc = "none" /\ child.acc.default = NoneV

\* the number of primary keys the category asked for has, and the defaults
\* the Config asked has registered for it
AskedArity ==
    get_pkey_info(child'.category, configs[refs[child'.client]].custom_groups).pkey_len
AskedDefaults ==
    LET registered == configs[refs[child'.client]].defaults
    IN IF child'.category \in DOMAIN registered
       THEN registered[child'.category] ELSE DictV(<<>>)

(***************************************************************************)
(* C24.  The root Group of a category has empty defaults when fewer        *)
(* primary keys are given than the category has, and the defaults          *)
(* registered for the category (empty when none are registered) when as    *)
(* many are given as the category has.                                     *)
(***************************************************************************)
C24_RootGroupDefaults ==
    [][(AskingBase /\ Len(child'.primary_keys) <= AskedArity)
       => /\ child'.acc.exc = "none" /\ child'.acc.is_group
          /\ held' = Kept(child'.acc)
          /\ child'.acc.defaults =
               IF Len(child'.primary_keys) < AskedArity
               THEN DictV(<<>>) ELSE AskedDefaults]_vars

\* MEMBER has registered defaults and the root Group of one guild's members
\* (one primary key of two) has none
C24_Witness ==
    /\ child.via = "base" /\ child.category = "MEMBER"
    /\ child.primary_keys = <<"g">>
    /\ "MEMBER" \in DOMAIN configs[refs[child.client]].defaults
    /\ held = Kept(child.acc) /\ held.defaults = DictV(<<>>)

\* the root Group of a guild has the defaults registered for GUILD
C24_FullAddress ==
    /\ child.via = "base" /\ child.category = "GUILD"
    /\ child.primary_keys = <<"g">>
    /\ held = Kept(child.acc) /\ held.defaults = GuildDefaults

\* nothing is registered for the category and all its primary keys are given
C24_NothingRegistered ==
    /\ child.via = "base" /\ child.category = "MEMBER"
    /\ child.primary_keys = <<"g", "m">>
    /\ "MEMBER" \notin DOMAIN configs[refs[child.client]].defaults
    /\ held = Kept(child.acc) /\ held.defaults = DictV(<<>>)

(***************************************************************************)
(* C25.  Asking for a root Group with more primary keys than the category  *)
(* has raises a contract-violation error at once: no Group is returned.    *)
(***************************************************************************)
C25_TooManyPrimaryKeys ==
    [][(AskingBase /\ Len(child'.primary_keys) > AskedArity)
       => /\ child'.acc.exc = "ContractViolation"
          /\ held' = held]_vars

\* a guild's root Group was asked for with two primary keys, after a root
\* Group had been returned for one
C25_Witness ==
    /\ child.via = "base" /\ child.category = "GUILD"
    /\ child.primary_keys = <<"g", "m">>
    /\ child.acc.exc = "ContractViolation"
    /\ held.kept /\ held.identifier_data.primary_key = <<"g">>

(***************************************************************************)
(* C26.  When Driver.get, Driver.set or Driver.clear raises an error that  *)
(* is not not-found, the caller of _get, set, clear, or of the section,    *)
(* gets that error, and the failed operation has made that one driver      *)
(* call and no other of its kind: nothing is tried again, nothing is       *)
(* stored.                                                                 *)
(***************************************************************************)
\* the driver call of task s's section that was pending has failed in this
\* step (the step is not a cancellation)
DriverFailed(s, at) ==
    /\ sec[s].pc = at /\ sec'[s].pc \in {"failed", "done"}
    /\ faults' = faults + 1
    /\ sec'[s].cancel_at = sec[s].cancel_at

C26_DriverFailurePropagates ==
    [][/\ (CallMade /\ faults' = faults + 1)
          => /\ op'.exc = "DriverFailure"
             /\ Len(op'.calls) = 1
             /\ store' = store
       /\ \A s \in Sections :
            /\ DriverFailed(s, "reading")
               => /\ sec'[s].exc = "DriverFailure"
                  /\ sec'[s].calls = <<"get">>
                  /\ store' = store
            /\ DriverFailed(s, "writing")
               => /\ sec'[s].exc = "DriverFailure"
                  /\ sec'[s].calls = <<"get", "set">>
                  /\ store' = store]_vars

\* Driver.get failed under a _get made outside a section
C26_Witness ==
    /\ op.kind = "get" /\ op.exc = "DriverFailure" /\ op.calls = <<"get">>

\* Driver.set failed at the exit of a section that had changed its copy
C26_WriteFailed ==
    \E s \in Sections :
        /\ sec[s].pc = "done" /\ sec[s].muts > 0
        /\ sec[s].exc = "DriverFailure" /\ ~sec[s].wrote
        /\ sec[s].calls = <<"get", "set">>

\* Driver.get failed in __aenter__
C26_ReadFailed ==
    \E s \in Sections :
        /\ sec[s].pc = "failed" /\ sec[s].exc = "DriverFailure"
        /\ sec[s].acquire_lock

\* Driver.clear failed
C26_ClearFailed ==
    /\ op.kind = "clear" /\ op.exc = "DriverFailure" /\ op.found
    /\ store[op.addr] = Found(op.before)

(***************************************************************************)
(* C27.  Sections on the same exact address whose lifetimes overlap all    *)
(* hold the same Lock object, the one the registry has for the address;    *)
(* and the registry has no entry for an address that no context manager    *)
(* refers to any more.                                                     *)
(***************************************************************************)
C27_OneLockPerAddress ==
    \A key \in Addrs :
        /\ lock_cache[key].alive => \E s \in Sections : Refers(s, key)
        /\ \A s \in Sections :
               Refers(s, key) => lock_cache[key].alive /\ sec[s].same_lock

\* a second section was opened on the address of a section in its body and
\* waits on the lock that section holds
C27_Witness ==
    \E s1, s2 \in Sections :
        /\ s1 # s2 /\ sec[s1].addr = sec[s2].addr
        /\ sec[s1].pc = "body" /\ sec[s2].pc = "waiting"
        /\ sec[s1].same_lock /\ sec[s2].same_lock
        /\ lock_cache[LockOf(s1)].holder = s1

\* both sections are over and the registry is empty
C27_EntryGone ==
    /\ \A s \in Sections : sec[s].pc = "done" /\ sec[s].acquired
    /\ \A key \in Addrs : ~lock_cache[key].alive

(***************************************************************************)
(* C28.  When the body of a section raises an ordinary exception after it  *)
(* has mutated the working copy, __aexit__ still writes the changed        *)
(* working copy back and releases the lock, and the caller gets the        *)
(* body's exception.  (A driver failure or a cancellation during the       *)
(* write-back is another matter.)                                          *)
(***************************************************************************)
\* the body of task s's section raised
BodyRaised(s) == sec[s].body_exc = "Error" \/ sec[s].exc = "Error"

\* the section of task s is over and nothing but its body has failed
OnlyBodyFailed(s) ==
    /\ sec[s].pc = "done" /\ BodyRaised(s)
    /\ sec[s].exc \notin {"DriverFailure", "Cancelled"}

C28_BodyErrorStillWrites ==
    \A s \in Sections :
        (OnlyBodyFailed(s) /\ sec[s].muts > 0)
        => /\ sec[s].wrote
           /\ ~HoldsLock(s)
           /\ sec[s].exc = "Error"

\* the same for a body that added an element at the top level of the
\* working copy before it raised
C28_TopLevelWrittenBack ==
    \A s \in Sections :
        (OnlyBodyFailed(s) /\ sec[s].top_added)
        => sec[s].wrote /\ ~HoldsLock(s) /\ sec[s].exc = "Error"

\* whatever the body changed, the lock is released and the body's exception
\* is the one the caller gets
C28_ReleasedAndPropagates ==
    \A s \in Sections :
        OnlyBodyFailed(s) => ~HoldsLock(s) /\ sec[s].exc = "Error"

\* a body appended to the list and raised
C28_TopLevelRaised ==
    \E s \in Sections :
        /\ OnlyBodyFailed(s) /\ sec[s].top_added /\ Exclusive(s)
        /\ sec[s].addr = Tempbans /\ sec[s].wrote

(***************************************************************************)
(* C29.  Every call of get_latest_confs returns exactly the Configs that   *)
(* were made since the call before it and are alive: none that an earlier  *)
(* call returned, and every live one at the first call after it was made.  *)
(***************************************************************************)
\* this step is a call of get_latest_confs
LatestCalled ==
    /\ <<configs, refs, request>>' = <<configs, refs, request>>
    /\ <<retrieved, latest>>' # <<retrieved, latest>>

C29_ReturnsNewConfigsOnce ==
    [][LatestCalled
       => /\ latest'.returned = latest.unseen
          /\ latest'.returned \cap retrieved = {}
          /\ \A i \in latest'.returned : configs[i].alive]_vars

\* a call returned one Config and not the other live one, which an earlier
\* call had returned
C29_Witness ==
    /\ latest.called /\ Cardinality(latest.returned) = 1
    /\ \E i \in retrieved \ latest.returned : configs[i].alive
    /\ latest.unseen = {}

\* the Config the last call returned has died, and a Config made after it
\* has its identity and waits for the next call
C29_IdentityUsedAgain ==
    /\ latest.called /\ latest.returned = {1}
    /\ retrieved = {} /\ latest.unseen = {1}
    /\ configs[1].alive

(***************************************************************************)
(* C30.  A member id that a completed tempban section appended to the      *)
(* stored current_tempbans list stays in the stored list until an          *)
(* operation takes that id off: an expiration pass that runs at the same   *)
(* time, and sets the list it read before it took the lock, drops no id    *)
(* that it did not unban itself.                                           *)
(***************************************************************************)
\* the tempban section of task s has ended and has written its id
Tempbanned(s) ==
    /\ sec[s].kind = "section" /\ CommittedAdd(s) /\ sec[s].wrote

\* q without the elements in gone
Remove(q, gone) == SelectSeq(q, LAMBDA x : x \notin gone)

\* some pass has unbanned the member whose id task s appended
Unbanned(s) == \E p \in Sections : IntV(s) \in sec[p].removed

C30_TempbanSurvivesPass ==
    \A s \in Sections :
        (Tempbanned(s) /\ ~Unbanned(s)) => Has(store[Tempbans].val, s)

\* what holds of the pass: it sets the list only while it holds the lock,
\* and what it sets is the list it read less the ids it unbanned
C30_PassWritesUnderLock ==
    \A p \in Sections :
        (sec[p].kind = "pass" /\ sec[p].pc = "writing")
        => /\ HoldsLock(p)
           /\ sec[p].raw_value = ListV(Remove(sec[p].seen.items, sec[p].removed))

\* a pass that read the list before a tempban was written has set it
C30_StaleListSet ==
    \E p, s \in Sections :
        /\ sec[p].kind = "pass" /\ sec[p].pc = "done" /\ sec[p].wrote
        /\ Tempbanned(s) /\ ~Has(sec[p].seen, s)

(***************************************************************************)
(* C31.  While the expiration pass unbans and sets the list it holds the   *)
(* lock of the guild's current_tempbans, the lock the sections on that     *)
(* address take: no exclusive section on that address is in flight while   *)
(* the pass checks or sets.  The lock is released when the pass is through *)
(* with the guild, also when the pass raises.                              *)
(***************************************************************************)
IsPass(p) == sec[p].kind = "pass"

C31_PassHoldsTheLock ==
    \A p \in Sections :
        IsPass(p) =>
            /\ sec[p].pc \in {"checking", "writing"} =>
                   /\ HoldsLock(p)
                   /\ sec[p].same_lock
                   /\ lock_cache[LockOf(p)].locked
                   /\ \A s \in Sections \ {p} :
                          (Exclusive(s) /\ LockOf(s) = LockOf(p))
                              => (~InFlight(s) /\ sec[s].same_lock)
            /\ sec[p].pc = "done" => ~HoldsLock(p)

\* a pass that raised under the lock, and a section that had waited for the
\* lock and has acquired it
C31_Witness ==
    \E p, s \in Sections :
        /\ IsPass(p) /\ sec[p].pc = "done" /\ sec[p].acquired
        /\ sec[p].exc \in {"Error", "DriverFailure"}
        /\ ~IsPass(s) /\ sec[s].waited /\ sec[s].acquired

\* a section waits while the pass is about to set the list
C31_SectionWaits ==
    \E p, s \in Sections :
        /\ IsPass(p) /\ sec[p].pc = "writing"
        /\ sec[s].pc = "waiting" /\ LockOf(s) = LockOf(p)

(***************************************************************************)
(* C32.  For the pass of one guild, _check_guild_tempban_expirations       *)
(* returns true exactly when it took at least one id off the list; it      *)
(* takes an id off only when the ban of that id is over and guild.unban    *)
(* returned or raised NotFound; it goes through no further id after the    *)
(* first permission failure (code 50013 or 403); and the list is set only  *)
(* when the result is true.                                                *)
(***************************************************************************)
\* the turns of pass p that took an id off the list
Removals(p) ==
    {i \in 1..Len(sec[p].log) :
        /\ sec[p].log[i].expired
        /\ sec[p].log[i].outcome \in {"unbanned", "NotFound"}}

\* the pass has gone through its list and the check has returned
Returned(p) ==
    IsPass(p) /\ sec[p].acquired /\ sec[p].todo = <<>> /\ sec[p].exc # "Error"

C32_CheckResult ==
    \A p \in Sections :
        IsPass(p) =>
            /\ sec[p].changed <=> sec[p].removed # {}
            /\ sec[p].changed <=> sec[p].raw_value # sec[p].seen
            /\ Len(sec[p].seen.items) - Len(sec[p].raw_value.items)
                   = Cardinality(Removals(p))
            /\ sec[p].removed = {sec[p].log[i].uid : i \in Removals(p)}
            /\ \A i \in 1..Len(sec[p].log) :
                   (sec[p].log[i].expired /\ sec[p].log[i].outcome = "Forbidden")
                       => (i = Len(sec[p].log) /\ sec[p].todo = <<>>)
            /\ SetCalled(p) => (Returned(p) /\ sec[p].changed)
            /\ (Returned(p) /\ sec[p].changed) => SetCalled(p)
            /\ sec[p].wrote => sec[p].changed

\* a pass that took one id off, left one whose unban failed for another
\* reason, and has set the list
C32_Witness ==
    \E p \in Sections :
        /\ IsPass(p) /\ sec[p].pc = "done" /\ sec[p].wrote
        /\ Cardinality(Removals(p)) = 1
        /\ \E i \in 1..Len(sec[p].log) :
               sec[p].log[i].expired /\ sec[p].log[i].outcome = "HTTPException"

\* a pass stopped by a permission failure with ids still to go through,
\* which set nothing
C32_StoppedAtForbidden ==
    \E p \in Sections :
        /\ IsPass(p) /\ sec[p].pc = "done" /\ ~sec[p].wrote
        /\ Len(sec[p].log) < Len(sec[p].seen.items)
        /\ sec[p].log[Len(sec[p].log)].outcome = "Forbidden"
        /\ sec[p].exc = "none"

(***************************************************************************)
(* C35.  The tempban command stores the member's banned_until before it    *)
(* appends the member's id to current_tempbans: in every interleaving with *)
(* the expiration pass, an id that is in the stored list because of a      *)
(* tempban, and so every such id the pass reads or goes through, has its   *)
(* banned_until stored.                                                    *)
(***************************************************************************)
UntilStored(s) == store[BannedUntil(IntV(s))].found

C35_UntilStoredBeforeListed ==
    \A s \in Sections \ PassTasks :
        /\ Has(store[Tempbans].val, s) => UntilStored(s)
        /\ \A p \in PassTasks :
               /\ Has(sec[p].seen, s) => UntilStored(s)
               /\ \A i \in 1..Len(sec[p].log) :
                      sec[p].log[i].uid = IntV(s) => sec[p].log[i].stored

\* the pass has gone through the id of a member banned while the model ran
C35_Witness ==
    \E s \in Sections \ PassTasks : \E p \in PassTasks :
        \E i \in 1..Len(sec[p].log) :
            /\ sec[p].log[i].uid = IntV(s) /\ sec[p].log[i].stored
            /\ sec[s].until_set /\ sec[s].wrote

(***************************************************************************)
(* C33.  After any sequence of Mod construction, cog_load,                 *)
(* start_tempban_task and cog_unload calls, at most one expiration task of *)
(* the Mod instance is unfinished; after cog_unload the task has been      *)
(* cancelled and no task is referenced.                                    *)
(* As the claim has it, with unfinished for a task that is not done:       *)
(* C33_OneUnfinishedTask.  As the code has it: at most one task is         *)
(* unfinished with no cancellation asked for it, and it is the task        *)
(* referenced; a task that cog_unload cancelled stays unfinished until the *)
(* event loop runs it, also after a new task is made.                      *)
(***************************************************************************)
Unfinished == {t \in TaskIds : mod.tasks[t].pc \notin {"none", "done"}}
Uncancelled == {t \in Unfinished : ~mod.tasks[t].must_cancel}

\* after cog_unload: no task referenced, every task made is cancelled or done
AfterUnload ==
    mod.last_call = "cog_unload" =>
        /\ mod.tban_expiry_task = NoTask
        /\ Uncancelled = {}

C33_OneUnfinishedTask ==
    /\ Cardinality(Unfinished) <= 1
    /\ AfterUnload

C33_OneUncancelledTask ==
    /\ Cardinality(Uncancelled) <= 1
    /\ Uncancelled \subseteq {mod.tban_expiry_task}
    /\ AfterUnload

\* a second task made after cog_unload, and a third after the second ended
\* by itself
C33_Witness ==
    /\ mod.tasks[1].must_cancel
    /\ mod.tasks[2].pc = "done" /\ ~mod.tasks[2].must_cancel
    /\ mod.tban_expiry_task = 3 /\ mod.tasks[3].pc = "checking"

\* cog_unload has just cancelled the task
C33_Unloaded ==
    /\ mod.last_call = "cog_unload"
    /\ \E t \in Unfinished : mod.tasks[t].must_cancel

(***************************************************************************)
(* C34.  The expiration task goes on after a check raises an ordinary      *)
(* exception: the failure is logged and, after the sleep, another check is *)
(* started.  Checks recur until the task is cancelled, and a cancellation  *)
(* ends the task.                                                          *)
(***************************************************************************)
\* task t sleeps after a check that raised an Exception, which was logged
FailedCheck(t) ==
    mod.tasks[t].pc = "sleeping" /\ mod.tasks[t].last = "Exception"

C34_ChecksRecur ==
    \A t \in TaskIds :
        \* an Exception never ends the task
        /\ [](done(mod.tasks[t]) =>
                 (mod.tasks[t].must_cancel \/ mod.tasks[t].last = "BaseException"))
        \* after a failed check comes the sleep
        /\ [](mod.tasks[t].last = "Exception" =>
                 (FailedCheck(t) \/ mod.tasks[t].pc = "checking"
                    \/ mod.tasks[t].must_cancel))
        \* after a sleep, that after a failed check too, comes the next
        \* check, unless the task is ended first
        /\ (FailedCheck(t) \/ mod.tasks[t].pc \in {"ready", "sleeping"})
               ~> (mod.tasks[t].pc = "checking" \/ done(mod.tasks[t]))
        \* a cancellation ends the task
        /\ mod.tasks[t].must_cancel ~> done(mod.tasks[t])

\* a check started after one that failed
C34_Witness ==
    \E t \in TaskIds :
        /\ mod.tasks[t].pc = "checking" /\ mod.tasks[t].last = "Exception"
        /\ ~mod.tasks[t].must_cancel

\* a task ended by a cancellation that reached it in a check
C34_CancelledInCheck ==
    \E t \in TaskIds :
        /\ done(mod.tasks[t]) /\ mod.tasks[t].must_cancel
        /\ mod.tasks[t].last = "Exception"

(***************************************************************************)
(* C36.  After any sequence of Tunnel constructions, no two live Tunnels   *)
(* have the same (sender, origin) pair and no two live Tunnels have the    *)
(* same recipient.                                                         *)
(***************************************************************************)
C36_TunnelsDisjoint ==
    \A x, y \in Live(instances) :
        x # y => (x[1] # y[1] /\ x[2] # y[2] /\ instances[x].id # instances[y].id)

\* two live Tunnels, and a call that was refused
C36_Witness ==
    /\ Cardinality(Live(instances)) = 2
    /\ made.result = "None"

(***************************************************************************)
(* C37.  Tunnel(...) with the sender, origin and recipient of a live       *)
(* Tunnel returns that Tunnel and does not run its constructor again;      *)
(* with only the (sender, origin) pair or only the recipient of a live     *)
(* Tunnel it returns None and makes and registers nothing.                 *)
(***************************************************************************)
TunnelCalled == now' = now + 1

\* lockout tuple k has the pair, or the recipient, of a live Tunnel, but
\* is the tuple of none
SharesOnly(inst, k) ==
    /\ k \notin Live(inst)
    /\ \E x \in Live(inst) : x[1] = k[1] \/ x[2] = k[2]

C37_ExistingOrNone ==
    [][TunnelCalled =>
         LET k == made'.lockout_tuple
         IN /\ k \in Live(instances) =>
                   /\ made'.result = "existing"
                   /\ made'.returned = instances[k]
                   /\ instances' = instances
            /\ SharesOnly(instances, k) =>
                   /\ made'.result = "None"
                   /\ made'.returned = NoTunnel
                   /\ instances' = instances]_vars

\* an existing Tunnel was returned at a later time than it was made
C37_Witness ==
    /\ made.result = "existing"
    /\ made.returned.last_interaction < now
    /\ made.returned.id = made.returned.last_interaction

\* a call that shared only the recipient was refused
C37_RefusedForRecipient ==
    /\ made.result = "None"
    /\ \A x \in Live(made.before) : x[1] # made.lockout_tuple[1]
    /\ instances = made.before

====
